---------------------------- MODULE Spec2Model ----------------------------
(***************************************************************************)
(* A model of the GAIA question-answering agent.                           *)
(*                                                                         *)
(*   - the regex router of src/app.py (BasicAgent.__call__ and its five    *)
(*     handlers, with the two scrape cache files),                         *)
(*   - the batch loop of run_and_submit_all (src/app.py),                  *)
(*   - the answer cleaner _clean_answer, in its two copies                 *)
(*     (src/agent/basic_agent.py and src/cache/agent/basic_agent.py).      *)
(*                                                                         *)
(* Text.  A Python str is modelled as the sequence of its lexemes.  A      *)
(* lexeme is a TLA+ string that stands for exactly that chunk of text: a   *)
(* single character (" ", ",", ".", "1", "$") or a whole word ("list",     *)
(* "Basil").  Words are never split over two lexemes and no word of the    *)
(* alphabet contains another as a piece, so searching, splitting and       *)
(* prefix matching on lexemes agree with the same operations on            *)
(* characters.  CharLen(c) is the number of characters of the lexeme c.    *)
(***************************************************************************)
EXTENDS Integers, Sequences, FiniteSets, TLC

VARIABLES
    \* --- router agent (src/app.py) -------------------------------------
    phase,          \* "idle" | "returned": position of the agent's caller
    question,       \* the question of the last call
    result,         \* how the last call ended: returned value or raised error
    consulted,      \* handlers whose matches() the last call evaluated, in order
    invoked,        \* handlers whose answer() the last call invoked, in order
    fetches,        \* network fetches made by the last call
    cache_reads,    \* cache files read by the last call
    cache_writes,   \* cache files written by the last call
    network,        \* what the network did during the last call
    mercedes_file,  \* content of cache/mercedes_sosa_album_count.json
    malko_file,     \* content of cache/malko_winners.json
    \* --- run_and_submit_all (src/app.py) -------------------------------
    bstatus,        \* "off" | "fetched" | "running" | "empty" | "no_answers" | "submitted"
    questions_data, \* the fetched list of items
    item_idx,       \* index of the next item of the for loop
    results_log,    \* rows appended so far
    answers_payload,\* answers appended so far
    processed,      \* indices of the items the agent was called on, in order
    \* --- answer cleaner ------------------------------------------------
    copy,           \* which copy of _clean_answer: "agent" | "cache"
    raw,            \* the raw answer handed to the cleaner
    cq,             \* the question handed to the cleaner
    cpc,            \* "start" | "cleaned" | "recleaned", or where __call__ returned
    out1,           \* _clean_answer(raw, cq), or what the first __call__ returned
    out2,           \* _clean_answer(out1, cq), or what the latest later __call__ returned
    answer_cache,   \* self.answer_cache of the copy of src/cache: question -> answer
    \* --- agent graph (src/agent/graph.py) -------------------------------
    gnode,          \* "off" | "ready" | "agent" | "tools" | "end" | "raised"
    messages,       \* state["messages"] of the run
    supersteps,     \* the number of node executions of the run
    \* --- _call_llm_with_retry and the rate limiter ----------------------
    rpc,            \* "off" | "idle" | "attempt" | "fallback" | "returned" | "raised"
    attempt,        \* the loop variable of the retry loop
    primary_calls,  \* chain.invoke calls of the current execution
    fallback_calls, \* fallback_chain.invoke calls of the current execution
    last_error,     \* what ended the latest chain.invoke: "none" | "rate_limit" | "other"
    executions,     \* executions of _call_llm_with_retry begun so far
    now,            \* time.time(), in seconds
    calls_per_minute, \* _rate_limiter.calls_per_minute
    call_times,     \* _rate_limiter.call_times
    admitted,       \* every time appended to call_times so far, in order
    fallback_llm    \* whether _fallback_llm is set (not None)

routerVars == <<phase, question, result, consulted, invoked, fetches,
                cache_reads, cache_writes, network, mercedes_file, malko_file>>
batchVars == <<bstatus, questions_data, item_idx, results_log, answers_payload, processed>>
cleanVars == <<copy, raw, cq, cpc, out1, out2, answer_cache>>
retryVars == <<rpc, attempt, primary_calls, fallback_calls, last_error, executions, now,
               calls_per_minute, call_times, admitted, fallback_llm>>
graphVars == <<gnode, messages, supersteps, retryVars>>
vars == <<routerVars, batchVars, cleanVars, graphVars>>

---------------------------------------------------------------------------
(* Python str operations, on sequences of lexemes.                         *)

Min(S) == CHOOSE x \in S : \A y \in S : x <= y

\* str.isspace() of a one-character lexeme
IsSpace(c) == c \in {" ", "\n", "\t"}

\* str.isdigit() of a one-character lexeme
IsDigit(c) == c \in {"0", "1", "2", "3", "4", "5", "6", "7", "8", "9"}

\* str.lower() of a lexeme: the capitalised lexemes of the alphabet
Lower(c) ==
    CASE c = "LIST" -> "list"
      [] c = "VEGETABLES" -> "vegetables"
      [] c = "Mercedes" -> "mercedes"
      [] c = "Sosa" -> "sosa"
      [] c = "Malko" -> "malko"
      [] c = "Competition" -> "competition"
      [] c = "I" -> "i"
      [] c = "S" -> "s"
      [] c = "Here's" -> "here's"
      [] c = "Basil" -> "basil"
      [] c = "Broccoli" -> "broccoli"
      [] c = "COMMA" -> "comma"
      [] c = "List" -> "list"
      [] c = "So" -> "so"
      [] c = "The" -> "the"
      [] c = "Answer" -> "answer"
      [] c = "East" -> "east"
      [] c = "West" -> "west"
      [] c = "Germany" -> "germany"
      [] c = "USSR" -> "ussr"
      [] c = "Brazil" -> "brazil"
      [] c = "Yugoslavia" -> "yugoslavia"
      [] c = "Czechoslovakia" -> "czechoslovakia"
      [] c = "GDR" -> "gdr"
      [] c = "Year" -> "year"
      [] c = "Album" -> "album"
      [] OTHER -> c

RECURSIVE LowerStr(_)
LowerStr(s) == IF s = <<>> THEN <<>> ELSE <<Lower(Head(s))>> \o LowerStr(Tail(s))

\* the backquote character, which a TLA+ string cannot hold
Backquote == "BACKQUOTE"
Bullet == "BULLET"
Euro == "EURO"
Pound == "POUND"
Yen == "YEN"
Symbols == {Backquote, Bullet, Euro, Pound, Yen}

\* the number of characters of a lexeme
CharLen(c) == IF c \in Symbols THEN 1 ELSE Len(c)

\* len(s): the number of characters
RECURSIVE StrLen(_)
StrLen(s) == IF s = <<>> THEN 0 ELSE CharLen(Head(s)) + StrLen(Tail(s))

RECURSIVE LStrip(_)
LStrip(s) == IF s # <<>> /\ IsSpace(Head(s)) THEN LStrip(Tail(s)) ELSE s

RECURSIVE RStrip(_)
RStrip(s) ==
    IF s # <<>> /\ IsSpace(s[Len(s)]) THEN RStrip(SubSeq(s, 1, Len(s) - 1)) ELSE s

\* str.strip()
Strip(s) == RStrip(LStrip(s))

\* pat occurs in s at position i
MatchAt(pat, s, i) ==
    /\ i >= 1
    /\ i + Len(pat) - 1 <= Len(s)
    /\ \A k \in 1..Len(pat) : s[i + k - 1] = pat[k]

\* the first position >= from where pat occurs in s, 0 if none (str.find + 1)
Find(pat, s, from) ==
    LET hits == {i \in from..(Len(s) - Len(pat) + 1) : MatchAt(pat, s, i)}
    IN IF hits = {} THEN 0 ELSE Min(hits)

\* pat in s
Contains(pat, s) == Find(pat, s, 1) # 0

\* s.startswith(pat)
StartsWith(s, pat) == MatchAt(pat, s, 1)

\* s.split(sep) for a one-lexeme separator: never empty, keeps empty pieces
RECURSIVE Split(_, _)
Split(s, sep) ==
    LET i == Find(<<sep>>, s, 1)
    IN IF i = 0 THEN <<s>>
       ELSE <<SubSeq(s, 1, i - 1)>> \o Split(SubSeq(s, i + 1, Len(s)), sep)

\* sep.join(parts)
RECURSIVE Join(_, _)
Join(parts, sep) ==
    IF parts = <<>> THEN <<>>
    ELSE IF Len(parts) = 1 THEN parts[1]
    ELSE parts[1] \o sep \o Join(Tail(parts), sep)

\* len(s.split()): the number of maximal runs of non-whitespace
WordCount(s) ==
    Cardinality({i \in 1..Len(s) :
                    /\ ~IsSpace(s[i])
                    /\ (i = 1 \/ IsSpace(s[i - 1]))})

\* any(char.isdigit() for char in s)
HasDigit(s) == \E i \in 1..Len(s) : IsDigit(s[i])

\* the concatenation of a sequence of strings
RECURSIVE Concat(_)
Concat(ss) == IF ss = <<>> THEN <<>> ELSE Head(ss) \o Concat(Tail(ss))

\* every sequence over S of length at most n
SeqsUpTo(S, n) == UNION {[1..k -> S] : k \in 0..n}

---------------------------------------------------------------------------
(* The handlers of src/app.py.                                             *)

\* how a call ended
Ret(v) == [kind |-> "return", value |-> v, error |-> "none"]
Raise(e) == [kind |-> "raise", value |-> <<>>, error |-> e]

\* BasicAgent.handlers, in registration order
HANDLERS == <<"Reverse", "Vegetable", "NonCommutative", "MercedesSosa", "Malko">>

\* the literal phrases of the handler patterns (lower-cased: re.IGNORECASE)
PhraseVegetable ==
    <<"list", " ", "of", " ", "just", " ", "the", " ", "vegetables">>
PhraseNonComm ==
    <<"table", " ", "defining", " ", "*", " ", "on", " ", "the", " ", "set", " ",
      "s", " ", "=", " ", "{", "a", ",", " ", "b", ",", " ", "c", ",", " ",
      "d", ",", " ", "e", "}">>
PhraseMercedes1 == <<"mercedes", " ", "sosa">>
PhraseMercedes2 == <<"studio", " ", "albums">>
PhraseMalko1 == <<"malko", " ", "competition">>
PhraseMalko2 ==
    <<"country", " ", "that", " ", "no", " ", "longer", " ", "exists">>

\* r"\\.rewsna": a backslash, any one character but a newline, then "rewsna"
MatchesReverse(q) ==
    \E i \in 1..(Len(q) - 2) :
        /\ q[i] = "\\"
        /\ CharLen(q[i + 1]) = 1
        /\ q[i + 1] # "\n"
        /\ Lower(q[i + 2]) = "rewsna"

\* r"A.*B" with re.DOTALL: A, then B anywhere after it
MatchesGap(a, b, q) ==
    LET lq == LowerStr(q)
        i == Find(a, lq, 1)
    IN i # 0 /\ Find(b, lq, i + Len(a)) # 0

\* RegexQuestionHandler.matches, for each handler's pattern
Matches(h, q) ==
    CASE h = "Reverse" -> MatchesReverse(q)
      [] h = "Vegetable" -> Contains(PhraseVegetable, LowerStr(q))
      [] h = "NonCommutative" -> Contains(PhraseNonComm, LowerStr(q))
      [] h = "MercedesSosa" -> MatchesGap(PhraseMercedes1, PhraseMercedes2, q)
      [] h = "Malko" -> MatchesGap(PhraseMalko1, PhraseMalko2, q)

\* --- ReverseSentenceHandler ---------------------------------------------
ReverseAnswer(q) == Ret(<<"right">>)

\* --- VegetableListHandler -----------------------------------------------
\* _VEGETABLE_MAP: every key maps to itself
VEGETABLE_MAP ==
    {<<"broccoli">>, <<"celery">>, <<"lettuce">>,
     <<"sweet", " ", "potatoes">>, <<"fresh", " ", "basil">>}

\* _ALIASES.get(x, x)
AliasOf(x) == IF x = <<"basil">> THEN <<"fresh", " ", "basil">> ELSE x

ListMarker ==
    <<"here's", " ", "the", " ", "list", " ", "i", " ", "have", " ", "so", " ",
      "far", ":">>
INeed == <<"i", " ", "need">>

\* the code point of the first character of a lexeme that starts a name of
\* the allow-list
Ord1(c) ==
    CASE c = "broccoli" -> 98
      [] c = "celery" -> 99
      [] c = "fresh" -> 102
      [] c = "lettuce" -> 108
      [] c = "sweet" -> 115

\* a < b for Python strings: code point by code point.  The names of the
\* allow-list differ in their first character, which decides.
StrLess(a, b) == Ord1(a[1]) < Ord1(b[1])

\* sorted(S) for a set of strings
RECURSIVE Sorted(_)
Sorted(S) ==
    IF S = {} THEN <<>>
    ELSE LET m == CHOOSE x \in S : \A y \in S \ {x} : StrLess(x, y)
         IN <<m>> \o Sorted(S \ {m})

\* the end of group 1 of r"here's the list I have so far:(.*?)(?:i need|$)":
\* the lazy group stops at the first position where "i need" starts or
\* where $ matches (the end, or just before a final newline)
ListEnd(lq, start) ==
    Min({p \in start..(Len(lq) + 1) :
            \/ MatchAt(INeed, lq, p)
            \/ p = Len(lq) + 1
            \/ (p = Len(lq) /\ lq[p] = "\n")})

\* [token.strip() for token in items_text.split(",") if token.strip()]
RawItems(items_text) ==
    LET toks == Split(items_text, ",")
        stripped == [i \in 1..Len(toks) |-> Strip(toks[i])]
    IN SelectSeq(stripped, LAMBDA t : t # <<>>)

\* a variant of VegStep that skips the alias table (C9 must tell them apart)
VegStepNoAlias(veggies, item) ==
    LET normalized == LowerStr(item)
    IN IF normalized \in VEGETABLE_MAP THEN veggies \cup {normalized} ELSE veggies

\* the body of the for loop over raw_items
VegStep(veggies, item) ==
    LET normalized == AliasOf(LowerStr(item))
    IN IF normalized \in VEGETABLE_MAP THEN veggies \cup {normalized} ELSE veggies

RECURSIVE VegLoop(_, _)
VegLoop(raw_items, veggies) ==
    IF raw_items = <<>> THEN veggies
    ELSE VegLoop(Tail(raw_items), VegStep(veggies, Head(raw_items)))

\* a variant of VegetableAnswer without the "if not veggies" check (C10
\* must tell them apart)
VegetableAnswerUnchecked(q) ==
    LET lq == LowerStr(q)
        m == Find(ListMarker, lq, 1)
    IN IF m = 0
       THEN Raise("Unable to locate the grocery list in the question.")
       ELSE LET start == m + Len(ListMarker)
                items_text == SubSeq(q, start, ListEnd(lq, start) - 1)
            IN Ret(Join(Sorted(VegLoop(RawItems(items_text), {})), <<",", " ">>))

\* VegetableListHandler.answer
VegetableAnswer(q) ==
    LET lq == LowerStr(q)
        m == Find(ListMarker, lq, 1)
    IN IF m = 0
       THEN Raise("Unable to locate the grocery list in the question.")
       ELSE LET start == m + Len(ListMarker)
                items_text == SubSeq(q, start, ListEnd(lq, start) - 1)
                veggies == VegLoop(RawItems(items_text), {})
            IN IF veggies = {}
               THEN Raise("No vegetables identified in the provided list.")
               ELSE Ret(Join(Sorted(veggies), <<",", " ">>))

\* --- NonCommutativeOperationHandler --------------------------------------
_ELEMENTS == <<"a", "b", "c", "d", "e">>

\* _TABLE[x][y]
_TABLE ==
    [x \in {"a", "b", "c", "d", "e"} |->
        CASE x = "a" -> [a |-> "a", b |-> "b", c |-> "c", d |-> "b", e |-> "d"]
          [] x = "b" -> [a |-> "b", b |-> "c", c |-> "a", d |-> "e", e |-> "c"]
          [] x = "c" -> [a |-> "c", b |-> "a", c |-> "b", d |-> "b", e |-> "a"]
          [] x = "d" -> [a |-> "b", b |-> "e", c |-> "b", d |-> "e", e |-> "d"]
          [] x = "e" -> [a |-> "d", b |-> "b", c |-> "a", d |-> "d", e |-> "c"]]

\* a variant of Witnesses that keeps the left member only of each pair
\* taken once, in the order of the elements (C11 must tell them apart)
WitnessesLeftOnly(table) ==
    {w \in DOMAIN table :
        \E i, j \in 1..Len(_ELEMENTS) :
            /\ i < j
            /\ table[_ELEMENTS[i]][_ELEMENTS[j]] # table[_ELEMENTS[j]][_ELEMENTS[i]]
            /\ w = _ELEMENTS[i]}

\* the two nested for loops: both members of every non-commuting pair
Witnesses(table) ==
    {w \in DOMAIN table :
        \E x \in DOMAIN table, y \in DOMAIN table :
            x # y /\ table[x][y] # table[y][x] /\ (w = x \/ w = y)}

\* sorted(witnesses) for one-letter strings: by code point
RECURSIVE SortedLetters(_)
SortedLetters(S) ==
    IF S = {} THEN <<>>
    ELSE LET m == CHOOSE x \in S :
                    \A y \in S \ {x} :
                        \E i, j \in 1..Len(_ELEMENTS) :
                            _ELEMENTS[i] = x /\ _ELEMENTS[j] = y /\ i < j
         IN <<<<m>>>> \o SortedLetters(S \ {m})

\* NonCommutativeOperationHandler.answer
NonCommutativeAnswer(q) ==
    LET witnesses == Witnesses(_TABLE)
    IN IF witnesses = {}
       THEN Raise("Operation appears commutative; no witnesses found.")
       ELSE Ret(Join(SortedLetters(witnesses), <<",", " ">>))

\* --- numbers as text ----------------------------------------------------
DIGITS == <<"0", "1", "2", "3", "4", "5", "6", "7", "8", "9">>

DigitVal(c) == CHOOSE d \in 0..9 : DIGITS[d + 1] = c

\* int(s) for a string of decimal digits
RECURSIVE ParseInt(_)
ParseInt(s) ==
    IF s = <<>> THEN 0
    ELSE 10 * ParseInt(SubSeq(s, 1, Len(s) - 1)) + DigitVal(s[Len(s)])

\* str(n) for n >= 0
RECURSIVE IntToStr(_)
IntToStr(n) ==
    IF n < 10 THEN <<DIGITS[n + 1]>>
    ELSE IntToStr(n \div 10) \o <<DIGITS[(n % 10) + 1]>>

\* str.isdigit(): non-empty, every character a digit
IsDigitStr(s) == s # <<>> /\ \A i \in 1..Len(s) : IsDigit(s[i])

\* a file of the cache directory
NoFile == [exists |-> FALSE, text |-> <<>>]
FileOf(t) == [exists |-> TRUE, text |-> t]

\* Python's None where an int is expected
None == -1

\* --- MercedesSosaAlbumHandler -------------------------------------------
MERCEDES_YEAR_RANGE == <<2000, 2009>>

\* _extract_year: re.search(r"(19|20)\d{2}", str(value))
_extract_year(cell) ==
    LET hits == {i \in 1..(Len(cell) - 3) :
                    /\ <<cell[i], cell[i + 1]>> \in {<<"1", "9">>, <<"2", "0">>}
                    /\ IsDigit(cell[i + 2])
                    /\ IsDigit(cell[i + 3])}
    IN IF hits = {} THEN None
       ELSE ParseInt(SubSeq(cell, Min(hits), Min(hits) + 3))

\* a variant of _read_cache that tests the text as it is in the file,
\* without strip (C12 must tell them apart)
ReadCacheUnstripped(file) ==
    IF ~file.exists THEN None
    ELSE IF IsDigitStr(file.text) THEN ParseInt(file.text)
    ELSE None

\* _read_cache
_read_cache(file) ==
    IF ~file.exists THEN None
    ELSE IF IsDigitStr(Strip(file.text)) THEN ParseInt(Strip(file.text))
    ELSE None

\* columns_lower.index("year"), 0 when "year" is not in columns_lower
YearColumn(table) ==
    LET hits == {k \in 1..Len(table.columns) :
                    LowerStr(Strip(table.columns[k])) = <<"year">>}
    IN IF hits = {} THEN 0 ELSE Min(hits)

\* the body of the for loop over tables: the new best_count
TableStep(best_count, table, start_year, end_year) ==
    LET k == YearColumn(table)
    IN IF k = 0 THEN best_count
       ELSE LET cells == table.cells[k]
                years == [i \in 1..Len(cells) |-> _extract_year(cells[i])]
                found == {i \in 1..Len(years) : years[i] # None}
                count == Cardinality({i \in found :
                            start_year <= years[i] /\ years[i] <= end_year})
                base == IF best_count = None THEN 0 ELSE best_count
            IN IF found = {} THEN best_count
               ELSE IF base >= count THEN base ELSE count

RECURSIVE BestCount(_, _, _, _)
BestCount(tables, best_count, start_year, end_year) ==
    IF tables = <<>> THEN best_count
    ELSE BestCount(Tail(tables),
                   TableStep(best_count, Head(tables), start_year, end_year),
                   start_year, end_year)

\* what one handler invocation did: its outcome, the files afterwards and
\* the accesses it made
Effect(outcome, mfile, kfile, nfetch, reads, writes) ==
    [outcome |-> outcome, mercedes_file |-> mfile, malko_file |-> kfile,
     fetches |-> nfetch, reads |-> reads, writes |-> writes]

\* a variant of MercedesAnswer that writes a count of 0 to the cache file
\* before it fails (C24 must tell them apart)
MercedesAnswerCachesFailure(q, mfile, kfile, page) ==
    LET cached == _read_cache(mfile)
        reads == IF mfile.exists THEN {"mercedes"} ELSE {}
        best_count == IF page.ok
                      THEN BestCount(page.tables, None,
                                     MERCEDES_YEAR_RANGE[1], MERCEDES_YEAR_RANGE[2])
                      ELSE None
    IN IF cached # None
       THEN Effect(Ret(IntToStr(cached)), mfile, kfile, 0, reads, {})
       ELSE IF best_count = None
       THEN Effect(Raise("Unable to parse Mercedes Sosa studio album data."),
                   FileOf(<<"0">>), kfile, 1, reads, {"mercedes"})
       ELSE Effect(Ret(IntToStr(best_count)), FileOf(IntToStr(best_count)),
                   kfile, 1, reads, {"mercedes"})

\* MercedesSosaAlbumHandler.answer with _get_album_count; page is what
\* pd.read_html does on this call
MercedesAnswer(q, mfile, kfile, page) ==
    LET cached == _read_cache(mfile)
        reads == IF mfile.exists THEN {"mercedes"} ELSE {}
    IN IF cached # None
       THEN Effect(Ret(IntToStr(cached)), mfile, kfile, 0, reads, {})
       ELSE IF ~page.ok
       THEN Effect(Raise("read_html failed"), mfile, kfile, 1, reads, {})
       ELSE LET best_count == BestCount(page.tables, None,
                                        MERCEDES_YEAR_RANGE[1], MERCEDES_YEAR_RANGE[2])
            IN IF best_count = None
               THEN Effect(Raise("Unable to parse Mercedes Sosa studio album data."),
                           mfile, kfile, 1, reads, {})
               ELSE Effect(Ret(IntToStr(best_count)), FileOf(IntToStr(best_count)),
                           kfile, 1, reads, {"mercedes"})

\* --- MalkoCompetitionHandler --------------------------------------------
MALKO_YEAR_RANGE == <<1978, 2000>>

\* a winner record: a mapping from header to cell text
Winner(y, w, c) == [year |-> y, winner |-> w, country |-> c]

_FALLBACK_WINNERS ==
    <<Winner(<<"1", "9", "8", "0">>, <<"Claus", " ", "Peter", " ", "Flor">>,
             <<"West", " ", "Germany">>),
      Winner(<<"1", "9", "8", "3">>, <<"Gotthard", " ", "Lienicke">>,
             <<"East", " ", "Germany">>),
      Winner(<<"1", "9", "8", "9">>, <<"Maximiano", " ", "Valdes">>,
             <<"Brazil">>)>>

defunct_countries ==
    {<<"ussr">>, <<"soviet", " ", "union">>, <<"yugoslavia">>,
     <<"czechoslovakia">>, <<"east", " ", "germany">>, <<"west", " ", "germany">>,
     <<"serbia", " ", "and", " ", "montenegro">>, <<"burma">>, <<"zaire">>}

\* _is_country_defunct
_is_country_defunct(country) ==
    \E name \in defunct_countries : Contains(name, LowerStr(country))

\* winner.get(key), with None read as the empty string (both are falsy)
Get(winner, key) == IF key \in DOMAIN winner THEN winner[key] ELSE <<>>

\* winner.get(k1) or winner.get(k2) or winner.get(k3) or ""
GetFirst(winner, keys) ==
    LET hits == {i \in 1..Len(keys) : Get(winner, keys[i]) # <<>>}
    IN IF hits = {} THEN <<>> ELSE Get(winner, keys[Min(hits)])

\* s.split()[0] for a string with a non-whitespace character
FirstWord(s) ==
    LET t == LStrip(s)
        stops == {i \in 1..Len(t) : IsSpace(t[i])}
    IN IF stops = {} THEN t ELSE SubSeq(t, 1, Min(stops) - 1)

\* whether the for loop of _find_target_winner returns at this record
IsTarget(winner) ==
    LET year_value == GetFirst(winner, <<"year", "years">>)
        country_value ==
            GetFirst(winner, <<"country", "nationality", "nationality/orchestra">>)
        year == _extract_year(year_value)
        full_name == Strip(GetFirst(winner, <<"winner", "name", "conductor">>))
    IN /\ year_value # <<>>
       /\ country_value # <<>>
       /\ year # None
       /\ year >= MALKO_YEAR_RANGE[1]
       /\ year <= MALKO_YEAR_RANGE[2]
       /\ _is_country_defunct(country_value)
       /\ full_name # <<>>

\* a variant of _find_target_winner that returns at the last target (C14
\* must tell them apart)
FindLastTarget(winners) ==
    LET hits == {i \in 1..Len(winners) : IsTarget(winners[i])}
        last == CHOOSE m \in hits : \A i \in hits : i <= m
    IN IF hits = {} THEN <<>>
       ELSE FirstWord(Strip(GetFirst(winners[last], <<"winner", "name", "conductor">>)))

\* _find_target_winner: the first_name of the first target, <<>> for None
_find_target_winner(winners) ==
    LET hits == {i \in 1..Len(winners) : IsTarget(winners[i])}
    IN IF hits = {} THEN <<>>
       ELSE FirstWord(Strip(GetFirst(winners[Min(hits)],
                                     <<"winner", "name", "conductor">>)))

\* the winners cache file, by what json.loads makes of its text:
\*   "invalid": json.loads raises;  "list": a list of records;
\*   "number", "object": valid JSON that is no list
NoJsonFile == [exists |-> FALSE, json |-> "invalid", winners |-> <<>>]
JsonListFile(ws) == [exists |-> TRUE, json |-> "list", winners |-> ws]
JsonOtherFile(k) == [exists |-> TRUE, json |-> k, winners |-> <<>>]

\* a variant of MalkoAnswer that writes the cache file after every fetch,
\* the fallback list when the scrape has no record (C16 must tell them apart)
MalkoAnswerPersistsAll(q, mfile, kfile, scrape) ==
    LET cached == kfile.exists /\ kfile.json # "invalid"
        reads == IF kfile.exists THEN {"malko"} ELSE {}
        nfetch == IF cached THEN 0 ELSE 1
        winners == IF cached THEN kfile.winners
                   ELSE IF scrape # <<>> THEN scrape
                   ELSE _FALLBACK_WINNERS
        writes == IF ~cached THEN {"malko"} ELSE {}
        kfile2 == IF ~cached THEN JsonListFile(winners) ELSE kfile
        target == _find_target_winner(winners)
    IN IF cached /\ kfile.json # "list"
       THEN Effect(Raise("cached winners are not a list of records"),
                   mfile, kfile2, nfetch, reads, writes)
       ELSE IF target = <<>>
       THEN Effect(Raise("Could not identify the requested Malko Competition winner."),
                   mfile, kfile2, nfetch, reads, writes)
       ELSE Effect(Ret(target), mfile, kfile2, nfetch, reads, writes)

\* MalkoCompetitionHandler.answer with _load_winners; scrape is what
\* _scrape_live_winners returns on this call ([] when the fetch failed)
MalkoAnswer(q, mfile, kfile, scrape) ==
    LET cached == kfile.exists /\ kfile.json # "invalid"
        reads == IF kfile.exists THEN {"malko"} ELSE {}
        nfetch == IF cached THEN 0 ELSE 1
        writes == IF ~cached /\ scrape # <<>> THEN {"malko"} ELSE {}
        kfile2 == IF ~cached /\ scrape # <<>> THEN JsonListFile(scrape) ELSE kfile
        iterable == ~cached \/ kfile.json = "list"
        winners == IF cached THEN kfile.winners
                   ELSE IF scrape # <<>> THEN scrape
                   ELSE _FALLBACK_WINNERS
        target == _find_target_winner(winners)
    IN IF ~iterable
       THEN Effect(Raise("cached winners are not a list of records"),
                   mfile, kfile2, nfetch, reads, writes)
       ELSE IF target = <<>>
       THEN Effect(Raise("Could not identify the requested Malko Competition winner."),
                   mfile, kfile2, nfetch, reads, writes)
       ELSE Effect(Ret(target), mfile, kfile2, nfetch, reads, writes)

\* --- BasicAgent (the router) --------------------------------------------
\* handler.answer(question) for handler h; net is what the network does
HandlerAnswer(h, q, mfile, kfile, net) ==
    CASE h = "Reverse" -> Effect(ReverseAnswer(q), mfile, kfile, 0, {}, {})
      [] h = "Vegetable" -> Effect(VegetableAnswer(q), mfile, kfile, 0, {}, {})
      [] h = "NonCommutative" ->
            Effect(NonCommutativeAnswer(q), mfile, kfile, 0, {}, {})
      [] h = "MercedesSosa" -> MercedesAnswer(q, mfile, kfile, net.page)
      [] h = "Malko" -> MalkoAnswer(q, mfile, kfile, net.scrape)

\* the handlers whose matches(q) is true
Matching(q) == {h \in {HANDLERS[i] : i \in 1..Len(HANDLERS)} : Matches(h, q)}

\* a variant of Walk that goes on to the later handlers when the first
\* matching handler raises (C1 must tell them apart)
RECURSIVE WalkSubstitute(_, _, _, _, _, _, _)
WalkSubstitute(handlers, i, matching, q, mfile, kfile, net) ==
    IF i > Len(handlers)
    THEN [effect |-> Effect(Ret(<<"UNHANDLED">>), mfile, kfile, 0, {}, {}),
          consulted |-> <<>>, invoked |-> <<>>]
    ELSE LET rest == WalkSubstitute(handlers, i + 1, matching, q, mfile, kfile, net)
             here == HandlerAnswer(handlers[i], q, mfile, kfile, net)
         IN IF handlers[i] \notin matching
            THEN [rest EXCEPT !.consulted = <<handlers[i]>> \o @]
            ELSE IF here.outcome.kind = "raise"
            THEN [rest EXCEPT !.consulted = <<handlers[i]>> \o @,
                              !.invoked = <<handlers[i]>> \o @]
            ELSE [effect |-> here, consulted |-> <<handlers[i]>>,
                  invoked |-> <<handlers[i]>>]

\* a variant of Walk that hands a question no pattern matches to the last
\* handler (C2 must tell them apart)
RECURSIVE WalkDefaultLast(_, _, _, _, _, _, _)
WalkDefaultLast(handlers, i, matching, q, mfile, kfile, net) ==
    IF i > Len(handlers)
    THEN [effect |-> HandlerAnswer(handlers[Len(handlers)], q, mfile, kfile, net),
          consulted |-> <<>>, invoked |-> <<handlers[Len(handlers)]>>]
    ELSE IF handlers[i] \in matching
    THEN [effect |-> HandlerAnswer(handlers[i], q, mfile, kfile, net),
          consulted |-> <<handlers[i]>>, invoked |-> <<handlers[i]>>]
    ELSE LET rest == WalkDefaultLast(handlers, i + 1, matching, q, mfile, kfile, net)
         IN [rest EXCEPT !.consulted = <<handlers[i]>> \o @]

\* the for loop of BasicAgent.__call__ from handler i on, matching being
\* the handlers whose matches(q) is true: what the call returns or raises,
\* with the handlers it consulted and invoked
RECURSIVE Walk(_, _, _, _, _, _, _)
Walk(handlers, i, matching, q, mfile, kfile, net) ==
    IF i > Len(handlers)
    THEN [effect |-> Effect(Ret(<<"UNHANDLED">>), mfile, kfile, 0, {}, {}),
          consulted |-> <<>>, invoked |-> <<>>]
    ELSE IF handlers[i] \in matching
    THEN [effect |-> HandlerAnswer(handlers[i], q, mfile, kfile, net),
          consulted |-> <<handlers[i]>>, invoked |-> <<handlers[i]>>]
    ELSE LET rest == Walk(handlers, i + 1, matching, q, mfile, kfile, net)
         IN [rest EXCEPT !.consulted = <<handlers[i]>> \o @]

\* BasicAgent.__call__
AgentCall(q, mfile, kfile, net) ==
    Walk(HANDLERS, 1, Matching(q), q, mfile, kfile, net)

---------------------------------------------------------------------------
(* The questions and the network outcomes the model draws from.            *)

\* the number of fragments a router question is built from
MaxFrags == 2

FragReverseEscaped == <<"\\", ".", "rewsna", " ", "eht">>
FragReversePlain == <<".", "rewsna", " ", "eht">>
FragVegetable ==
    <<"LIST", " ", "of", " ", "just", " ", "the", " ", "vegetables", " ">>
FragNonComm ==
    <<"table", " ", "defining", " ", "*", " ", "on", " ", "the", " ", "set", " ",
      "S", " ", "=", " ", "{", "a", ",", " ", "b", ",", " ", "c", ",", " ",
      "d", ",", " ", "e", "}", " ">>
FragMercedes ==
    <<"Mercedes", " ", "Sosa", "\n", "how", " ", "many", " ",
      "studio", " ", "albums", " ">>
FragSosa == <<"Mercedes", " ", "Sosa", " ">>
FragStudio == <<"studio", " ", "albums", " ">>
FragMalko ==
    <<"Malko", " ", "Competition", "\n", "country", " ", "that", " ", "no", " ",
      "longer", " ", "exists", " ">>
FragGroceries ==
    <<"Here's", " ", "the", " ", "list", " ", "I", " ", "have", " ", "so", " ",
      "far", ":", " ", "milk", ",", " ", "Basil", ",", "broccoli", " ">>
FragOther == <<"what", " ", "is", " ", "this", "?", " ">>

RouterFragments ==
    {FragReverseEscaped, FragReversePlain, FragVegetable, FragNonComm,
     FragMercedes, FragSosa, FragStudio, FragMalko, FragGroceries, FragOther}

\* the questions put to the router agent
RouterQuestions == {Concat(fs) : fs \in SeqsUpTo(RouterFragments, MaxFrags)}

\* data tables as pd.read_html returns them: column names and, per column,
\* the cell texts
TableDisco ==
    [columns |-> <<<<"Year">>, <<"Album">>>>,
     cells |-> <<<< <<"1", "9", "9", "9">>, <<"2", "0", "0", "3">>,
                    <<"(", "2", "0", "0", "5", ")">> >>,
                 << <<"a">>, <<"b">>, <<"c">> >>>>]
TableLong ==
    [columns |-> <<<<" ", "year", " ">>>>,
     cells |-> <<<< <<"2", "0", "0", "0">>, <<"2", "0", "0", "9">>,
                    <<"2", "0", "1", "0">>, <<"1", "2", "0", "0", "1">> >>>>]
TableNoYear ==
    [columns |-> <<<<"Album">>>>, cells |-> <<<< <<"2", "0", "0", "3">> >>>>]
TableBlank ==
    [columns |-> <<<<"Year">>>>, cells |-> <<<< <<"unknown">>, <<"1", "8", "9", "9">> >>>>]
TableOld ==
    [columns |-> <<<<"Year">>>>, cells |-> <<<< <<"1", "9", "8", "2">> >>>>]

Tables == {TableDisco, TableLong, TableNoYear, TableBlank, TableOld}

\* the number of tables of a fetched page
MaxTables == 2

\* what pd.read_html does: it raises, or returns at least one table
Pages ==
    {[ok |-> FALSE, tables |-> <<>>]}
    \cup {[ok |-> TRUE, tables |-> ts] : ts \in SeqsUpTo(Tables, MaxTables) \ {<<>>}}

\* the rows a scrape of the winners page can yield
ScrapedWinners ==
    {Winner(<<"1", "9", "7", "7">>, <<"Ivan", " ", "Old">>, <<"USSR">>),
     Winner(<<"1", "9", "8", "6">>, <<" ", "Anna", " ", "Kern">>,
            <<"East", " ", "Germany", ",", " ", "GDR">>),
     Winner(<<"1", "9", "9", "2">>, <<"Jin", " ", "Wang">>, <<"Brazil">>),
     Winner(<<"1", "9", "7", "9">>, <<" ">>, <<"Yugoslavia">>),
     [years |-> <<"2", "0", "0", "0">>, name |-> <<"Petr", " ", "Novak">>,
      nationality |-> <<"Czechoslovakia">>]}

\* the number of rows of a scrape
MaxRows == 2

\* what _scrape_live_winners returns: [] when the fetch fails or finds no row
Scrapes == SeqsUpTo(ScrapedWinners, MaxRows)

\* what the network does during one call.  A call reaches at most one of
\* the two sites, so the other is taken to fail.
NoNet == [page |-> [ok |-> FALSE, tables |-> <<>>], scrape |-> <<>>]
NetOutcomes ==
    {[NoNet EXCEPT !.page = p] : p \in Pages}
    \cup {[NoNet EXCEPT !.scrape = s] : s \in Scrapes}

\* the network outcomes of the router specification: both fetches fail, the
\* album page has a usable table, the album page has none, the winners
\* page yields two rows
RouterNets ==
    {NoNet,
     [NoNet EXCEPT !.page = [ok |-> TRUE, tables |-> <<TableNoYear, TableDisco>>]],
     [NoNet EXCEPT !.page = [ok |-> TRUE, tables |-> <<TableNoYear>>]],
     [NoNet EXCEPT !.scrape =
        <<Winner(<<"1", "9", "9", "2">>, <<"Jin", " ", "Wang">>, <<"Brazil">>),
          Winner(<<"1", "9", "8", "6">>, <<" ", "Anna", " ", "Kern">>,
                 <<"East", " ", "Germany", ",", " ", "GDR">>)>>]}

\* the outcomes to tell apart for a question: the network's answer matters
\* only to a question that one of the two scraping patterns matches
NetChoices(matching) ==
    IF "MercedesSosa" \in matching \/ "Malko" \in matching THEN RouterNets
    ELSE {NoNet}

\* Matching, tabulated over the router questions
MatchTable == [q \in RouterQuestions |-> Matching(q)]

\* cache files left by earlier runs, or by hand
InitialMercedesFiles ==
    {NoFile, FileOf(<<" ", "0", "7", "\n">>), FileOf(<<"x">>)}
InitialMalkoFiles ==
    {NoJsonFile, JsonOtherFile("invalid"), JsonOtherFile("number"),
     JsonListFile(_FALLBACK_WINNERS)}

NoResult == [kind |-> "none", value |-> <<>>, error |-> "none"]

---------------------------------------------------------------------------
(* Spec: calls of the router agent.                                        *)

BatchIdle ==
    /\ bstatus = "off"
    /\ questions_data = <<>>
    /\ item_idx = 0
    /\ results_log = <<>>
    /\ answers_payload = <<>>
    /\ processed = <<>>

CleanIdle ==
    /\ copy = "agent"
    /\ raw = <<>>
    /\ cq = <<>>
    /\ cpc = "idle"
    /\ out1 = NoResult
    /\ out2 = NoResult
    /\ answer_cache = <<>>

\* no call of the model is under way and the rate limiter is not in use
RetryIdle ==
    /\ rpc = "off"
    /\ attempt = 0
    /\ primary_calls = 0
    /\ fallback_calls = 0
    /\ last_error = "none"
    /\ executions = 0
    /\ now = 0
    /\ calls_per_minute = 0
    /\ call_times = <<>>
    /\ admitted = <<>>
    /\ fallback_llm = FALSE

\* the graph is not built
GraphIdle ==
    /\ gnode = "off"
    /\ messages = <<>>
    /\ supersteps = 0
    /\ RetryIdle

Init ==
    /\ phase = "idle"
    /\ question = <<>>
    /\ result = NoResult
    /\ consulted = <<>>
    /\ invoked = <<>>
    /\ fetches = 0
    /\ cache_reads = {}
    /\ cache_writes = {}
    /\ network = NoNet
    /\ mercedes_file \in InitialMercedesFiles
    /\ malko_file \in InitialMalkoFiles
    /\ BatchIdle
    /\ CleanIdle
    /\ GraphIdle

\* a caller invokes agent(q): BasicAgent.__call__ runs to its end
Call(q, net) ==
    /\ phase = "idle"
    /\ LET r == Walk(HANDLERS, 1, MatchTable[q], q, mercedes_file, malko_file, net)
       IN /\ question' = q
          /\ result' = r.effect.outcome
          /\ consulted' = r.consulted
          /\ invoked' = r.invoked
          /\ fetches' = r.effect.fetches
          /\ cache_reads' = r.effect.reads
          /\ cache_writes' = r.effect.writes
          /\ network' = net
          /\ mercedes_file' = r.effect.mercedes_file
          /\ malko_file' = r.effect.malko_file
    /\ phase' = "returned"
    /\ UNCHANGED <<batchVars, cleanVars, graphVars>>

\* the caller takes the outcome and is ready for its next call
Resume ==
    /\ phase = "returned"
    /\ phase' = "idle"
    /\ question' = <<>>
    /\ result' = NoResult
    /\ consulted' = <<>>
    /\ invoked' = <<>>
    /\ fetches' = 0
    /\ cache_reads' = {}
    /\ cache_writes' = {}
    /\ network' = NoNet
    /\ UNCHANGED <<mercedes_file, malko_file, batchVars, cleanVars, graphVars>>

Next ==
    \/ \E q \in RouterQuestions : \E net \in NetChoices(MatchTable[q]) : Call(q, net)
    \/ Resume

Spec == Init /\ [][Next]_vars

---------------------------------------------------------------------------
(* SpecScrape: invocations of the two scraping resolvers, in any order,    *)
(* over the cache files they leave.                                        *)

InitScrape ==
    /\ phase = "idle"
    /\ question = <<>>
    /\ result = NoResult
    /\ consulted = <<>>
    /\ invoked = <<>>
    /\ fetches = 0
    /\ cache_reads = {}
    /\ cache_writes = {}
    /\ network = NoNet
    /\ mercedes_file \in InitialMercedesFiles
    /\ malko_file \in InitialMalkoFiles
    /\ BatchIdle
    /\ CleanIdle
    /\ GraphIdle

\* what pd.read_html may do on an invocation: it is not called when
\* _read_cache returns a count
PageChoices(mfile) ==
    IF _read_cache(mfile) # None THEN {NoNet.page} ELSE Pages

\* what _scrape_live_winners may return on an invocation: it is not called
\* when json.loads accepts the cache file
ScrapeChoices(kfile) ==
    IF kfile.exists /\ kfile.json # "invalid" THEN {NoNet.scrape} ELSE Scrapes

\* the caller's view of an invocation that did e
Invoked(h, q, e, net) ==
    /\ phase = "idle"
    /\ phase' = "returned"
    /\ question' = q
    /\ result' = e.outcome
    /\ consulted' = <<h>>
    /\ invoked' = <<h>>
    /\ fetches' = e.fetches
    /\ cache_reads' = e.reads
    /\ cache_writes' = e.writes
    /\ network' = net
    /\ mercedes_file' = e.mercedes_file
    /\ malko_file' = e.malko_file
    /\ UNCHANGED <<batchVars, cleanVars, graphVars>>

\* MercedesSosaAlbumHandler.answer(question) is invoked
AlbumCount(page) ==
    Invoked("MercedesSosa", FragMercedes,
            MercedesAnswer(FragMercedes, mercedes_file, malko_file, page),
            [NoNet EXCEPT !.page = page])

\* MalkoCompetitionHandler.answer(question) is invoked
WinnerLookup(scrape) ==
    Invoked("Malko", FragMalko,
            MalkoAnswer(FragMalko, mercedes_file, malko_file, scrape),
            [NoNet EXCEPT !.scrape = scrape])

NextScrape ==
    \/ \E page \in PageChoices(mercedes_file) : AlbumCount(page)
    \/ \E scrape \in ScrapeChoices(malko_file) : WinnerLookup(scrape)
    \/ Resume

SpecScrape == InitScrape /\ [][NextScrape]_vars

---------------------------------------------------------------------------
(* SpecVeg: calls of the vegetable resolver on grocery questions.          *)

\* the number of items of a grocery list
MaxItems == 3

MarkerHere ==
    <<"Here's", " ", "the", " ", "list", " ", "I", " ", "have", " ", "so", " ",
      "far", ":">>

GroceryItems ==
    {<<"broccoli">>, <<" ", "Basil">>, <<"basil", " ">>, <<"milk">>,
     <<" ", "sweet", " ", "potatoes">>, <<" ">>, <<"Broccoli">>}

\* what follows the list: nothing, the "I need" clause, a final newline, a
\* request for a comma separated list
GroceryTails ==
    {<<>>, <<" ", "I", " ", "need", " ", "lettuce", ",", " ", "celery">>, <<"\n">>,
     <<" ", "I", " ", "need", " ", "a", " ", "comma", " ", "separated", " ", "list">>}

\* "<pattern phrase><marker or nothing><items joined by commas><tail>"
VegQuestions ==
    {FragVegetable \o marker \o Join(items, <<",">>) \o tail :
        marker \in {MarkerHere, <<>>},
        items \in SeqsUpTo(GroceryItems, MaxItems),
        tail \in GroceryTails}

InitVeg ==
    /\ phase = "idle"
    /\ question = <<>>
    /\ result = NoResult
    /\ consulted = <<>>
    /\ invoked = <<>>
    /\ fetches = 0
    /\ cache_reads = {}
    /\ cache_writes = {}
    /\ network = NoNet
    /\ mercedes_file = NoFile
    /\ malko_file = NoJsonFile
    /\ BatchIdle
    /\ CleanIdle
    /\ GraphIdle

\* VegetableListHandler.answer(q) is invoked
Resolve(q) ==
    /\ phase = "idle"
    /\ phase' = "returned"
    /\ question' = q
    /\ result' = VegetableAnswer(q)
    /\ invoked' = <<"Vegetable">>
    /\ UNCHANGED <<consulted, fetches, cache_reads, cache_writes, network, mercedes_file,
                   malko_file, batchVars, cleanVars, graphVars>>

NextVeg ==
    \/ \E q \in VegQuestions : Resolve(q)
    \/ Resume

SpecVeg == InitVeg /\ [][NextVeg]_vars

---------------------------------------------------------------------------
(* SpecBatch: the for loop of run_and_submit_all.                          *)

\* the number of items of the fetched list
MaxBatch == 3

\* an item of the fetched list: item.get("task_id") and item.get("question"),
\* either of which may be None (has_... is FALSE)
Item(has_id, id, has_q, q) ==
    [has_task_id |-> has_id, task_id |-> id, has_question |-> has_q, question |-> q]

\* a question the vegetable resolver answers, one it fails on, one that no
\* pattern matches
QuestionGroceries == FragVegetable \o MarkerHere \o <<" ", "milk", ",", " ", "Basil">>
QuestionNoList == FragVegetable
QuestionOther == FragOther

BatchItems ==
    {Item(TRUE, "t1", TRUE, QuestionGroceries),
     Item(TRUE, "t1", TRUE, QuestionNoList),
     Item(TRUE, "t1", TRUE, QuestionOther),
     Item(TRUE, "t2", TRUE, QuestionNoList),
     Item(TRUE, "t2", TRUE, <<>>),
     Item(TRUE, "", TRUE, QuestionGroceries),
     Item(FALSE, "", TRUE, QuestionOther),
     Item(TRUE, "t1", FALSE, <<>>)}

\* "not task_id or question_text is None": the item is skipped
Skipped(item) ==
    \/ ~item.has_task_id
    \/ item.task_id = ""
    \/ ~item.has_question

\* the row appended to results_log for an item the agent was called on
RowFor(item, outcome) ==
    [task_id |-> item.task_id,
     question |-> item.question,
     answer |-> IF outcome.kind = "raise"
                THEN <<"AGENT ERROR: ", outcome.error>>
                ELSE outcome.value]

\* a variant of LoopStep that logs no row when the agent raises (C4 must
\* tell them apart)
LoopStepDropsFailure(i, item, outcome, log, payload) ==
    IF Skipped(item)
    THEN [idx |-> i + 1, log |-> log, payload |-> payload, called |-> FALSE]
    ELSE IF outcome.kind = "raise"
    THEN [idx |-> i + 1, log |-> log, payload |-> payload, called |-> TRUE]
    ELSE [idx |-> i + 1, log |-> Append(log, RowFor(item, outcome)),
          payload |-> Append(payload, [task_id |-> item.task_id,
                                       submitted_answer |-> outcome.value]),
          called |-> TRUE]

\* one iteration of the for loop on item number i: the new loop index,
\* results_log and answers_payload
LoopStep(i, item, outcome, log, payload) ==
    IF Skipped(item)
    THEN [idx |-> i + 1, log |-> log, payload |-> payload, called |-> FALSE]
    ELSE IF outcome.kind = "raise"
    THEN [idx |-> i + 1, log |-> Append(log, RowFor(item, outcome)),
          payload |-> payload, called |-> TRUE]
    ELSE [idx |-> i + 1, log |-> Append(log, RowFor(item, outcome)),
          payload |-> Append(payload, [task_id |-> item.task_id,
                                       submitted_answer |-> outcome.value]),
          called |-> TRUE]

InitBatch ==
    /\ phase = "idle"
    /\ question = <<>>
    /\ result = NoResult
    /\ consulted = <<>>
    /\ invoked = <<>>
    /\ fetches = 0
    /\ cache_reads = {}
    /\ cache_writes = {}
    /\ network = NoNet
    /\ mercedes_file = NoFile
    /\ malko_file = NoJsonFile
    /\ bstatus = "fetched"
    /\ questions_data \in SeqsUpTo(BatchItems, MaxBatch)
    /\ item_idx = 0
    /\ results_log = <<>>
    /\ answers_payload = <<>>
    /\ processed = <<>>
    /\ CleanIdle
    /\ GraphIdle

\* "if not questions_data": an empty list ends the run before the loop
BeginRun ==
    /\ bstatus = "fetched"
    /\ IF questions_data = <<>>
       THEN bstatus' = "empty" /\ item_idx' = item_idx
       ELSE bstatus' = "running" /\ item_idx' = 1
    /\ UNCHANGED <<routerVars, questions_data, results_log, answers_payload,
                   processed, cleanVars, graphVars>>

\* one iteration of "for item in questions_data", with its call of the agent
RunItem ==
    /\ bstatus = "running"
    /\ item_idx <= Len(questions_data)
    /\ LET item == questions_data[item_idx]
           r == AgentCall(item.question, mercedes_file, malko_file, NoNet)
           step == LoopStep(item_idx, item, r.effect.outcome,
                            results_log, answers_payload)
       IN /\ item_idx' = step.idx
          /\ results_log' = step.log
          /\ answers_payload' = step.payload
          /\ processed' = IF step.called
                          THEN Append(processed,
                                      [index |-> item_idx,
                                       raised |-> r.effect.outcome.kind = "raise"])
                          ELSE processed
          /\ IF step.called
             THEN /\ mercedes_file' = r.effect.mercedes_file
                  /\ malko_file' = r.effect.malko_file
             ELSE UNCHANGED <<mercedes_file, malko_file>>
    /\ UNCHANGED <<phase, question, result, consulted, invoked, fetches,
                   cache_reads, cache_writes, network, bstatus, questions_data,
                   cleanVars, graphVars>>

\* the loop is over: without answers the run ends, otherwise it submits
EndRun ==
    /\ bstatus = "running"
    /\ item_idx > Len(questions_data)
    /\ bstatus' = IF answers_payload = <<>> THEN "no_answers" ELSE "submitted"
    /\ UNCHANGED <<routerVars, questions_data, item_idx, results_log,
                   answers_payload, processed, cleanVars, graphVars>>

NextBatch == BeginRun \/ RunItem \/ EndRun

SpecBatch == InitBatch /\ [][NextBatch]_vars

---------------------------------------------------------------------------
(* The answer cleaner: BasicAgent._clean_answer, in both copies.           *)

\* --- step 2: the code fence ----------------------------------------------
Fence == <<Backquote, Backquote, Backquote>>

\* the lines that do not start with the fence, joined again, stripped
DropFenceLines(answer) ==
    LET lines == Split(answer, "\n")
    IN Strip(Join(SelectSeq(lines, LAMBDA l : ~StartsWith(l, Fence)), <<"\n">>))

StepFence(answer) ==
    IF StartsWith(answer, Fence) THEN DropFenceLines(answer) ELSE answer

\* --- step 3: json.loads --------------------------------------------------
\* The JSON texts of the model are flat objects whose values are strings
\* without escapes, integers, true, false and null, with distinct keys.
\* A value is [type, text]: type is "string", "number", "true", "false" or
\* "null", text the string's content or the number's digits.
JVal(type, txt) == [type |-> type, text |-> txt]

\* the first position >= i that holds no JSON whitespace
RECURSIVE SkipWs(_, _)
SkipWs(s, i) ==
    IF i <= Len(s) /\ s[i] \in {" ", "\n", "\t"} THEN SkipWs(s, i + 1) ELSE i

ParseFail == [ok |-> FALSE, val |-> JVal("null", <<>>), next |-> 0]

\* a string literal at position i: up to the next quote; a control
\* character or a backslash inside has no reading here
ParseString(s, i) ==
    IF i > Len(s) \/ s[i] # "\"" THEN ParseFail
    ELSE LET j == Find(<<"\"">>, s, i + 1)
         IN IF j = 0 THEN ParseFail
            ELSE IF \E k \in (i + 1)..(j - 1) : s[k] \in {"\n", "\t", "\\"}
            THEN ParseFail
            ELSE [ok |-> TRUE, val |-> JVal("string", SubSeq(s, i + 1, j - 1)),
                  next |-> j + 1]

\* the end of the run of digits that starts at i (i - 1 when there is none)
RECURSIVE DigitsEnd(_, _)
DigitsEnd(s, i) ==
    IF i <= Len(s) /\ IsDigit(s[i]) THEN DigitsEnd(s, i + 1) ELSE i - 1

\* an integer literal at position i: -?(0|[1-9][0-9]*), not followed by a
\* fraction or an exponent
ParseNumber(s, i) ==
    LET d == IF i <= Len(s) /\ s[i] = "-" THEN i + 1 ELSE i
        e == DigitsEnd(s, d)
    IN IF e < d THEN ParseFail
       ELSE IF s[d] = "0" /\ e > d
       THEN [ok |-> TRUE, val |-> JVal("number", SubSeq(s, i, d)), next |-> d + 1]
       ELSE IF e < Len(s) /\ s[e + 1] \in {".", "e", "E"} THEN ParseFail
       ELSE [ok |-> TRUE, val |-> JVal("number", SubSeq(s, i, e)), next |-> e + 1]

ParseValue(s, i) ==
    IF i > Len(s) THEN ParseFail
    ELSE IF s[i] = "\"" THEN ParseString(s, i)
    ELSE IF s[i] \in {"null", "true", "false"}
    THEN [ok |-> TRUE, val |-> JVal(s[i], <<>>), next |-> i + 1]
    ELSE ParseNumber(s, i)

\* the members of an object from position i, which holds a key: the pairs
\* read so far are acc
RECURSIVE ParseMembers(_, _, _)
ParseMembers(s, i, acc) ==
    LET key == ParseString(s, i)
        colon == SkipWs(s, key.next)
        val == ParseValue(s, SkipWs(s, colon + 1))
        after == SkipWs(s, val.next)
        pairs == Append(acc, [key |-> key.val.text, val |-> val.val])
    IN IF ~key.ok THEN [ok |-> FALSE, pairs |-> <<>>]
       ELSE IF colon > Len(s) \/ s[colon] # ":" THEN [ok |-> FALSE, pairs |-> <<>>]
       ELSE IF ~val.ok THEN [ok |-> FALSE, pairs |-> <<>>]
       ELSE IF after > Len(s) THEN [ok |-> FALSE, pairs |-> <<>>]
       ELSE IF s[after] = "}"
       THEN [ok |-> SkipWs(s, after + 1) > Len(s), pairs |-> pairs]
       ELSE IF s[after] = ","
       THEN ParseMembers(s, SkipWs(s, after + 1), pairs)
       ELSE [ok |-> FALSE, pairs |-> <<>>]

\* json.loads(s) for a text that starts with "{": the pairs of the object
\* in the order of the text, or not ok (json.loads raises)
JsonLoads(s) ==
    LET i == SkipWs(s, 2)
    IN IF i > Len(s) THEN [ok |-> FALSE, pairs |-> <<>>]
       ELSE IF s[i] = "}"
       THEN [ok |-> SkipWs(s, i + 1) > Len(s), pairs |-> <<>>]
       ELSE ParseMembers(s, i, <<>>)

\* key in parsed
HasKey(pairs, key) == \E i \in 1..Len(pairs) : pairs[i].key = key

\* parsed[key]
ValueOf(pairs, key) == pairs[CHOOSE i \in 1..Len(pairs) : pairs[i].key = key].val

\* bool(value)
Truthy(v) ==
    CASE v.type = "string" -> v.text # <<>>
      [] v.type = "number" -> v.text \notin {<<"0">>, <<"-", "0">>}
      [] v.type = "true" -> TRUE
      [] OTHER -> FALSE

\* value != "FINISH"
NotFinish(v) == ~(v.type = "string" /\ v.text = <<"FINISH">>)

\* str(value) of a truthy value
StrOf(v) ==
    CASE v.type = "string" -> v.text
      [] v.type = "number" -> v.text
      [] v.type = "true" -> <<"True">>

QuotedName == <<"\"", "name", "\"">>
QuotedFinish == <<"\"", "FINISH", "\"">>

\* src/agent/basic_agent.py: the first key present decides, whatever its value
AgentKeys == <<<<"answer">>, <<"vegetables">>, <<"surname">>, <<"value">>, <<"result">>>>

StepJsonAgent(answer) ==
    IF ~(StartsWith(answer, <<"{">>) /\ Contains(QuotedName, answer)
                                     /\ Contains(QuotedFinish, answer))
    THEN JVal("string", answer)
    ELSE LET parsed == JsonLoads(answer)
             hits == {k \in 1..Len(AgentKeys) : HasKey(parsed.pairs, AgentKeys[k])}
         IN IF ~parsed.ok \/ hits = {} THEN JVal("string", answer)
            ELSE ValueOf(parsed.pairs, AgentKeys[Min(hits)])

\* src/cache/agent/basic_agent.py: the first key with a truthy value that is
\* not "FINISH", then the first such member of the object that is not "name"
CacheKeys ==
    <<<<"answer">>, <<"arguments">>, <<"vegetables">>, <<"surname">>, <<"value">>,
      <<"result">>, <<"submitted_answer">>>>

StepJsonCache(answer) ==
    IF ~(StartsWith(answer, <<"{">>) /\ (Contains(QuotedName, answer)
                                         \/ Contains(QuotedFinish, answer)))
    THEN JVal("string", answer)
    ELSE LET parsed == JsonLoads(answer)
             pairs == parsed.pairs
             hits == {k \in 1..Len(CacheKeys) :
                        /\ HasKey(pairs, CacheKeys[k])
                        /\ Truthy(ValueOf(pairs, CacheKeys[k]))
                        /\ NotFinish(ValueOf(pairs, CacheKeys[k]))}
             first == IF hits = {} THEN answer
                      ELSE StrOf(ValueOf(pairs, CacheKeys[Min(hits)]))
             members == {i \in 1..Len(pairs) :
                            /\ pairs[i].key \notin {<<"name">>, <<"FINISH">>}
                            /\ Truthy(pairs[i].val)
                            /\ NotFinish(pairs[i].val)}
         IN IF ~parsed.ok THEN JVal("string", answer)
            ELSE IF HasKey(pairs, <<"name">>) /\ members # {}
            THEN JVal("string", StrOf(pairs[Min(members)].val))
            ELSE JVal("string", first)

\* --- step 4: the prefix patterns, each applied once, in order ------------
\* r'^(the answer is|answer:|final answer:|thus,|therefore,|so,|hence,)\s*'
LeadingPhrases ==
    {<<"the", " ", "answer", " ", "is">>, <<"answer", ":">>,
     <<"final", " ", "answer", ":">>, <<"thus", ",">>, <<"therefore", ",">>,
     <<"so", ",">>, <<"hence", ",">>}

\* the text left when the pattern matched its first n lexemes and then \s*
DropMatch(s, n) == LStrip(SubSeq(s, n + 1, Len(s)))

RemovePhrase(s) ==
    LET hits == {p \in LeadingPhrases : StartsWith(LowerStr(s), p)}
    IN IF hits = {} THEN s
       ELSE DropMatch(s, Len(CHOOSE p \in hits : TRUE))

\* the end of the run of whitespace that starts at i (i - 1 when none)
RECURSIVE SpacesEnd(_, _)
SpacesEnd(s, i) ==
    IF i <= Len(s) /\ IsSpace(s[i]) THEN SpacesEnd(s, i + 1) ELSE i - 1

\* the position after an optional "word\s+" at position i
SkipWord(ls, i, word) ==
    IF i <= Len(ls) /\ ls[i] = word /\ SpacesEnd(ls, i + 1) > i
    THEN SpacesEnd(ls, i + 1) + 1
    ELSE i

\* r'^(the\s+)?(correct\s+)?(number|city|country|name|value|total|result)\s+(is|are|was|were)\s*'
RemoveCorrectNoun(s) ==
    LET ls == LowerStr(s)
        n == SkipWord(ls, SkipWord(ls, 1, "the"), "correct")
        v == SpacesEnd(ls, n + 1) + 1
    IN IF /\ n <= Len(ls)
          /\ ls[n] \in {"number", "city", "country", "name", "value", "total", "result"}
          /\ v > n + 1
          /\ v <= Len(ls)
          /\ ls[v] \in {"is", "are", "was", "were"}
       THEN DropMatch(s, v)
       ELSE s

\* r'^\d+\.\s*'
RemoveNumbering(s) ==
    LET e == DigitsEnd(s, 1)
    IN IF e >= 1 /\ e < Len(s) /\ s[e + 1] = "." THEN DropMatch(s, e + 1) ELSE s

\* the fourth pattern: a leading hyphen or bullet, then \s*
RemoveBullet(s) ==
    IF s # <<>> /\ s[1] \in {"-", Bullet} THEN DropMatch(s, 1) ELSE s

\* F applied to the value of x: x is evaluated once
Then(x, F(_)) == CHOOSE y \in {F(v) : v \in {x}} : TRUE

\* for pattern in patterns_to_remove: re.sub, then strip
StepPrefixes(answer) ==
    Then(Then(Then(Then(answer,
        LAMBDA a : Strip(RemovePhrase(a))),
        LAMBDA a : Strip(RemoveCorrectNoun(a))),
        LAMBDA a : Strip(RemoveNumbering(a))),
        LAMBDA a : Strip(RemoveBullet(a)))

\* --- step 5: the sentence heuristic --------------------------------------
\* len(sent) < 50 and (a digit in sent or len(sent.split()) <= 5)
SentenceWidth == 50
SentenceWords == 5

IsKeySentence(sent) ==
    /\ StrLen(sent) < SentenceWidth
    /\ (HasDigit(sent) \/ WordCount(sent) <= SentenceWords)

StepSentence(answer) ==
    LET sentences == Split(answer, ".")
        stripped == [i \in 1..Len(sentences) |-> Strip(sentences[i])]
        hits == {i \in 1..Len(stripped) : IsKeySentence(stripped[i])}
    IN IF Len(sentences) > 1 /\ hits # {} THEN stripped[Min(hits)] ELSE answer

\* --- step 6: re.sub(r'\s*\([^)]*\)\s*$', '', answer) ----------------------
\* the start of the run of whitespace that ends at i (i + 1 when none)
RECURSIVE SpacesStart(_, _)
SpacesStart(s, i) ==
    IF i >= 1 /\ IsSpace(s[i]) THEN SpacesStart(s, i - 1) ELSE i + 1

StepParens(answer) ==
    LET close == Len(RStrip(answer))
        opens == {k \in 1..(close - 1) :
                    /\ answer[k] = "("
                    /\ \A m \in (k + 1)..(close - 1) : answer[m] # ")"}
    IN IF close >= 1 /\ answer[close] = ")" /\ opens # {}
       THEN SubSeq(answer, 1, SpacesStart(answer, Min(opens) - 1) - 1)
       ELSE answer

\* --- step 7: the comma list ----------------------------------------------
\* 'comma' in q.lower() and ('list' in q.lower() or 'separated' in q.lower())
IsCommaQuestion(q) ==
    LET lq == LowerStr(q)
    IN /\ Contains(<<"comma">>, lq)
       /\ (Contains(<<"list">>, lq) \/ Contains(<<"separated">>, lq))

\* re.sub(r',\s+', ',', answer): the whitespace that follows a comma goes
RECURSIVE DropAfterComma(_, _)
DropAfterComma(answer, i) ==
    IF i > Len(answer) THEN <<>>
    ELSE IF /\ IsSpace(answer[i])
            /\ SpacesStart(answer, i) > 1
            /\ answer[SpacesStart(answer, i) - 1] = ","
    THEN DropAfterComma(answer, i + 1)
    ELSE <<answer[i]>> \o DropAfterComma(answer, i + 1)

\* a variant of RemoveSpaceAfterComma for r',\s': one whitespace character
\* after a comma goes (C7 must tell them apart)
RECURSIVE DropOneAfterComma(_, _)
DropOneAfterComma(answer, i) ==
    IF i > Len(answer) THEN <<>>
    ELSE IF IsSpace(answer[i]) /\ i > 1 /\ answer[i - 1] = ","
    THEN DropOneAfterComma(answer, i + 1)
    ELSE <<answer[i]>> \o DropOneAfterComma(answer, i + 1)

RemoveOneSpaceAfterComma(answer) == DropOneAfterComma(answer, 1)

RemoveSpaceAfterComma(answer) == DropAfterComma(answer, 1)

StepComma(answer, q) ==
    IF IsCommaQuestion(q) THEN RemoveSpaceAfterComma(answer) ELSE answer

\* --- step 8: numbers -----------------------------------------------------
NumberSymbols == {"$", Euro, Pound, Yen, "%", ","}
NumberWords == 5

\* float(s) accepts s (after its own strip): [sign] digits [. digits]
\* [e [sign] digits] with a digit before or after the point.  The alphabet
\* has no "_", "inf" or "nan".
IsFloat(s0) ==
    LET s == Strip(s0)
        a == IF s # <<>> /\ s[1] \in {"+", "-"} THEN 2 ELSE 1
        ie == DigitsEnd(s, a)
        hasPoint == ie < Len(s) /\ s[ie + 1] = "."
        fe == IF hasPoint THEN DigitsEnd(s, ie + 2) ELSE ie
        intDigits == ie - a + 1
        fracDigits == IF hasPoint THEN fe - (ie + 1) ELSE 0
        me == IF hasPoint THEN fe ELSE ie
        hasExp == me < Len(s) /\ s[me + 1] \in {"e", "E"}
        x == IF me + 2 <= Len(s) /\ s[me + 2] \in {"+", "-"} THEN me + 3 ELSE me + 2
        xe == DigitsEnd(s, x)
    IN /\ intDigits + fracDigits >= 1
       /\ IF hasExp THEN xe >= x /\ xe = Len(s) ELSE me = Len(s)

StepNumber(answer) ==
    LET cleaned == SelectSeq(answer, LAMBDA c : c \notin NumberSymbols)
    IN IF WordCount(answer) <= NumberWords /\ HasDigit(answer) /\ IsFloat(cleaned)
       THEN Strip(cleaned)
       ELSE answer

\* --- step 9: answer.strip('"\'') -----------------------------------------
IsQuote(c) == c \in {"\"", "'"}

RECURSIVE StripQuotes(_)
StripQuotes(s) ==
    IF s # <<>> /\ IsQuote(s[1]) THEN StripQuotes(Tail(s))
    ELSE IF s # <<>> /\ IsQuote(s[Len(s)]) THEN StripQuotes(SubSeq(s, 1, Len(s) - 1))
    ELSE s

\* --- _clean_answer -------------------------------------------------------
\* the steps between the JSON step and the final quote step, on a str
BeforeQuotes(answer, q) ==
    Then(Then(Then(Then(Then(answer,
        StepPrefixes),
        StepSentence),
        StepParens),
        LAMBDA a : StepComma(a, q)),
        StepNumber)

\* the steps after the JSON step, on a str
CleanText(answer, q) == Then(BeforeQuotes(answer, q), StripQuotes)

\* the JSON step of either copy
StepJson(c, answer) ==
    IF c = "agent" THEN StepJsonAgent(answer) ELSE StepJsonCache(answer)

\* the text that reaches the JSON step: strip, then the code fence
Unfenced(answer) == Then(Strip(answer), StepFence)

\* re.sub on the value j of the JSON step: TypeError when j is no str
CleanValue(j, q) ==
    IF j.type # "string"
    THEN Raise("TypeError: expected string or bytes-like object")
    ELSE Ret(CleanText(j.text, q))

\* _clean_answer(answer, question) of copy c
Clean(c, answer, q) ==
    Then(Then(Unfenced(answer), LAMBDA a : StepJson(c, a)),
         LAMBDA j : CleanValue(j, q))

\* --- the cleaner's inputs ------------------------------------------------
MaxLen == 3

\* the lexemes of the raw answers that are enumerated up to MaxLen
CleanAlphabet == {" ", "-", "1", ".", ",", "$", "a"}

DollarAmount == <<"$", "1", ",", "2", "3", "4", ".", "5", "6">>
Percentage == <<"1", "2", "%">>
FruitList == <<"apple", ",", " ", "banana", ",", " ", "cherry">>
NumberList == <<"1", ",", " ", "2", ",", " ", "3">>
WideList == <<"a", ",", " ", " ", "a", ",", "\n", "a">>
FinishObject ==
    <<"{", "\"", "name", "\"", ":", "\"", "FINISH", "\"", ",",
      "\"", "answer", "\"", ":", "\"", "Paris", "\"", "}">>
FinishNumber ==
    <<"{", "\"", "name", "\"", ":", "\"", "FINISH", "\"", ",",
      "\"", "answer", "\"", ":", "1", "2", "}">>
FinishResultFirst ==
    <<"{", "\"", "name", "\"", ":", "\"", "FINISH", "\"", ",",
      "\"", "result", "\"", ":", "\"", "a", "\"", ",",
      "\"", "answer", "\"", ":", "\"", "1", "\"", "}">>
ToolCallObject ==
    <<"{", "\"", "name", "\"", ":", "\"", "search", "\"", ",",
      "\"", "arguments", "\"", ":", "\"", "a", "\"", "}">>
FencedObject == Fence \o <<"json", "\n">> \o FinishObject \o <<"\n">> \o Fence
Explained == <<"So", ",", " ", "the", " ", "answer", " ", "is", " ", "1", " ", "(", "a", ")">>
QuotedTwice == <<"'", "\"", "a", "\"", "'">>
QuotedOpen == <<"\"", "a">>
LongSentence ==
    <<"a", " ", "a", " ", "a", " ", "a", " ", "a", " ", "a", ".", " ", "Paris">>

Exemplars ==
    {DollarAmount, Percentage, FruitList, NumberList, WideList, FinishObject,
     FinishNumber, FinishResultFirst, ToolCallObject, FencedObject, Explained, QuotedTwice, QuotedOpen,
     LongSentence}

RawAnswers == SeqsUpTo(CleanAlphabet, MaxLen) \cup Exemplars

QuestionCommaList == <<"comma", " ", "separated", " ", "list", " ", "of", " ", "fruits">>
QuestionCommaUpper == <<"COMMA", " ", "List">>
QuestionCommaOnly == <<"comma", "?">>
QuestionTotalSales == <<"total", " ", "sales", "?">>
QuestionPercent == <<"what", " ", "percent", "?">>

CleanQuestions ==
    {QuestionCommaList, QuestionCommaUpper, QuestionCommaOnly, QuestionTotalSales,
     QuestionPercent}

Copies == {"agent", "cache"}

\* --- SpecClean: _clean_answer(raw, cq), then _clean_answer of what it returned
InitClean ==
    /\ phase = "idle"
    /\ question = <<>>
    /\ result = NoResult
    /\ consulted = <<>>
    /\ invoked = <<>>
    /\ fetches = 0
    /\ cache_reads = {}
    /\ cache_writes = {}
    /\ network = NoNet
    /\ mercedes_file = NoFile
    /\ malko_file = NoJsonFile
    /\ BatchIdle
    /\ GraphIdle
    /\ copy \in Copies
    /\ raw \in RawAnswers
    /\ cq \in CleanQuestions
    /\ cpc = "start"
    /\ out1 = NoResult
    /\ out2 = NoResult
    /\ answer_cache = <<>>

\* out1 = self._clean_answer(raw, cq)
CleanCall ==
    /\ cpc = "start"
    /\ cpc' = "cleaned"
    /\ out1' = Clean(copy, raw, cq)
    /\ UNCHANGED <<routerVars, batchVars, graphVars, copy, raw, cq, out2, answer_cache>>

\* out2 = self._clean_answer(out1, cq)
CleanAgain ==
    /\ cpc = "cleaned"
    /\ out1.kind = "return"
    /\ cpc' = "recleaned"
    /\ out2' = Clean(copy, out1.value, cq)
    /\ UNCHANGED <<routerVars, batchVars, graphVars, copy, raw, cq, out1, answer_cache>>

NextClean == CleanCall \/ CleanAgain

SpecClean == InitClean /\ [][NextClean]_vars

\* --- SpecLLM: calls of BasicAgent.__call__(cq) of either copy, the
\* graph ending with the AI message raw when it yields one
\* ensure_valid_answer (src/cache/agent/basic_agent.py)
UnableToDetermine == <<"Unable to determine answer">>
ensure_valid_answer(answer) ==
    IF answer = <<>> \/ Strip(answer) = <<>> THEN UnableToDetermine
    ELSE Strip(answer)

\* f"Agent failed with error: {e}"
AgentFailed(e) == <<"Agent failed with error: ", e>>

\* what self.graph.invoke does: it ends with an AI message, it ends
\* without one, or it raises
GraphOutcomes == {"answered", "silent", "failed"}

\* the answer of one __call__, where it returned and the cache it leaves
Reply(at, answer, cache) == [at |-> at, answer |-> answer, cache |-> cache]

\* BasicAgent.__call__ of src/agent/basic_agent.py; cleaned is what
\* self._clean_answer(raw_answer, question) did when the call reached it
AgentRespond(outcome, cleaned, cache) ==
    IF outcome = "failed" THEN Reply("failed", AgentFailed("graph error"), cache)
    ELSE IF outcome = "silent" THEN Reply("silent", <<"No answer found.">>, cache)
    ELSE IF cleaned.kind = "raise"
    THEN Reply("failed", AgentFailed(cleaned.error), cache)
    ELSE Reply("answered", cleaned.value, cache)

\* a variant of CacheRespond that never looks the question up in the cache
\* (C25 must tell them apart)
CacheRespondNoLookup(outcome, cleaned, q, cache) ==
    IF outcome = "failed"
    THEN Reply("failed", ensure_valid_answer(AgentFailed("graph error")), cache)
    ELSE IF outcome = "silent" THEN Reply("silent", ensure_valid_answer(<<>>), cache)
    ELSE IF cleaned.kind = "raise"
    THEN Reply("failed", ensure_valid_answer(AgentFailed(cleaned.error)), cache)
    ELSE Reply("answered", ensure_valid_answer(cleaned.value),
               (q :> ensure_valid_answer(cleaned.value)) @@ cache)

\* a variant of CacheRespond that stores what it returns after a failure or
\* a run without AI message, too (C26 must tell them apart)
CacheRespondStoresAll(outcome, cleaned, q, cache) ==
    IF q \in DOMAIN cache THEN Reply("cached", cache[q], cache)
    ELSE IF outcome = "failed"
    THEN Reply("failed", ensure_valid_answer(AgentFailed("graph error")),
               (q :> ensure_valid_answer(AgentFailed("graph error"))) @@ cache)
    ELSE IF outcome = "silent"
    THEN Reply("silent", ensure_valid_answer(<<>>),
               (q :> ensure_valid_answer(<<>>)) @@ cache)
    ELSE IF cleaned.kind = "raise"
    THEN Reply("failed", ensure_valid_answer(AgentFailed(cleaned.error)), cache)
    ELSE Reply("answered", ensure_valid_answer(cleaned.value),
               (q :> ensure_valid_answer(cleaned.value)) @@ cache)

\* BasicAgent.__call__ of src/cache/agent/basic_agent.py, use_cache being
\* True as the constructor has it
CacheRespond(outcome, cleaned, q, cache) ==
    IF q \in DOMAIN cache THEN Reply("cached", cache[q], cache)
    ELSE IF outcome = "failed"
    THEN Reply("failed", ensure_valid_answer(AgentFailed("graph error")), cache)
    ELSE IF outcome = "silent" THEN Reply("silent", ensure_valid_answer(<<>>), cache)
    ELSE IF cleaned.kind = "raise"
    THEN Reply("failed", ensure_valid_answer(AgentFailed(cleaned.error)), cache)
    ELSE Reply("answered", ensure_valid_answer(cleaned.value),
               (q :> ensure_valid_answer(cleaned.value)) @@ cache)

\* __call__ of copy c: the cleaner runs when the graph ended with the AI
\* message content and the answer did not come from the cache
Respond(c, outcome, content, q, cache) ==
    Then(IF outcome = "answered" /\ ~(c = "cache" /\ q \in DOMAIN cache)
         THEN Clean(c, content, q) ELSE NoResult,
         LAMBDA cleaned : IF c = "agent" THEN AgentRespond(outcome, cleaned, cache)
                                         ELSE CacheRespond(outcome, cleaned, q, cache))

\* the graph is not run when the answer comes from the cache
GraphChoices(c, q, cache) ==
    IF c = "cache" /\ q \in DOMAIN cache THEN {"silent"} ELSE GraphOutcomes

InitLLM == InitClean

\* agent(cq): cpc is where the call returned, out1 is what the first call
\* returned, out2 what the latest of the later calls did
Ask(outcome) ==
    /\ cpc \in {"start", "answered", "silent", "failed", "cached"}
    /\ \E reply \in {Respond(copy, outcome, raw, cq, answer_cache)} :
          /\ cpc' = reply.at
          /\ IF cpc = "start"
             THEN out1' = Ret(reply.answer) /\ out2' = out2
             ELSE out2' = Ret(reply.answer) /\ out1' = out1
          /\ answer_cache' = reply.cache
    /\ UNCHANGED <<routerVars, batchVars, graphVars, copy, raw, cq>>

NextLLM == \E outcome \in GraphChoices(copy, cq, answer_cache) : Ask(outcome)

SpecLLM == InitLLM /\ [][NextLLM]_vars

(***************************************************************************)
(* The agent graph (src/agent/graph.py): the nodes "agent" and "tools",    *)
(* the entry point, the conditional edge out of "agent" and the edge from  *)
(* "tools" back to "agent" (SpecGraph).                                    *)
(***************************************************************************)

\* the names of the tools bound to the model, a sample of tool_classes
_tools == {"calculator"}

\* the names a model response may ask for: the registered ones and one that
\* no tool carries
RequestedNames == _tools \cup {"web_lookup"}

\* the longest tool_calls list of one response explored
MaxCalls == 2

\* the number of node executions of one run explored
MaxSupersteps == 4

HumanMessage(content) ==
    [type |-> "human", tool_calls |-> <<>>, tool_call_id |-> <<>>, content |-> content]

AIMessage(tool_calls, content) ==
    [type |-> "ai", tool_calls |-> tool_calls, tool_call_id |-> <<>>, content |-> content]

ToolMessage(content, tool_call_id) ==
    [type |-> "tool", tool_calls |-> <<>>, tool_call_id |-> tool_call_id,
     content |-> content]

\* the tool_calls lists of a response produced at node execution `step`:
\* the ids are unique within the run
ToolCallLists(step) ==
    UNION {{[i \in 1..n |-> [name |-> names[i], id |-> <<step, i>>]] :
               names \in [1..n -> RequestedNames]} : n \in 0..MaxCalls}

\* what invoking a tool can do
ToolOutcomes == {"observation", "raises"}

\* should_continue, on the mutated code: routes on the content instead
should_continueOnContent(msgs) ==
    IF msgs[Len(msgs)].content = <<>> THEN "tools" ELSE "end"

\* should_continue(state): "tools" when the last message has tool calls
should_continue(msgs) ==
    IF msgs[Len(msgs)].tool_calls # <<>> THEN "tools" ELSE "end"

\* the messages tool_node builds for the calls from position i on; outs[i]
\* is what invoking the tool of call i does
RECURSIVE ToolMessages(_, _, _)
ToolMessages(calls, outs, i) ==
    IF i > Len(calls) THEN <<>>
    ELSE LET tool_call == calls[i]
             rest == ToolMessages(calls, outs, i + 1)
         IN  IF tool_call.name \in _tools
             THEN IF outs[i] = "observation"
                  THEN <<ToolMessage(<<"observation">>, tool_call.id)>> \o rest
                  ELSE <<ToolMessage(<<"Error: ", "detail">>, tool_call.id)>> \o rest
             ELSE rest

\* tool_node(state): the messages it returns
tool_node(msgs, outs) ==
    LET last_message == msgs[Len(msgs)]
    IN  IF last_message.tool_calls = <<>> THEN <<>>
        ELSE ToolMessages(last_message.tool_calls, outs, 1)

InitGraph ==
    /\ phase = "idle"
    /\ question = <<>>
    /\ result = NoResult
    /\ consulted = <<>>
    /\ invoked = <<>>
    /\ fetches = 0
    /\ cache_reads = {}
    /\ cache_writes = {}
    /\ network = NoNet
    /\ mercedes_file = NoFile
    /\ malko_file = NoJsonFile
    /\ BatchIdle
    /\ CleanIdle
    /\ gnode = "ready"
    /\ messages = <<HumanMessage(<<"question">>)>>
    /\ supersteps = 0
    /\ RetryIdle

\* graph.invoke(state): the run begins at the entry point
Invoke ==
    /\ gnode = "ready"
    /\ gnode' = "agent"
    /\ UNCHANGED <<routerVars, batchVars, cleanVars, messages, supersteps, retryVars>>

\* agent_node(state) and the conditional edge that follows it; the call of
\* the model either raises or gives the response
AgentNode(raises, tool_calls, content) ==
    /\ gnode = "agent"
    /\ supersteps < MaxSupersteps
    /\ supersteps' = supersteps + 1
    /\ IF raises
       THEN /\ gnode' = "raised"
            /\ messages' = messages
       ELSE /\ messages' = Append(messages, AIMessage(tool_calls, content))
            /\ gnode' = should_continue(messages')
    /\ UNCHANGED <<routerVars, batchVars, cleanVars, retryVars>>

\* tool_node(state) and the edge back to the agent node
ToolNode(outs) ==
    /\ gnode = "tools"
    /\ supersteps < MaxSupersteps
    /\ supersteps' = supersteps + 1
    /\ messages' = messages \o tool_node(messages, outs)
    /\ gnode' = "agent"
    /\ UNCHANGED <<routerVars, batchVars, cleanVars, retryVars>>

\* the responses the model can give at this node execution
Responses(step) ==
    {<<FALSE, calls, content>> :
        calls \in ToolCallLists(step), content \in {<<>>, <<"final">>}}
    \cup {<<TRUE, <<>>, <<>>>>}

\* the outcomes of the tools of the last message: a call of an unregistered
\* name invokes nothing
OutcomeLists(msgs) ==
    LET calls == msgs[Len(msgs)].tool_calls
    IN  {outs \in [1..Len(calls) -> ToolOutcomes] :
            \A i \in 1..Len(calls) :
                calls[i].name \notin _tools => outs[i] = "observation"}

NextGraph ==
    \/ Invoke
    \/ \E r \in Responses(supersteps + 1) : AgentNode(r[1], r[2], r[3])
    \/ \E outs \in OutcomeLists(messages) : ToolNode(outs)

SpecGraph == InitGraph /\ [][NextGraph]_vars

(***************************************************************************)
(* _call_llm_with_retry and SimpleRateLimiter (src/agent/graph.py): the    *)
(* retry loop around the primary chain, the fallback chain, and the        *)
(* limiter every primary attempt goes through (SpecRetry).                 *)
(***************************************************************************)

\* the default of the parameter max_retries
max_retries == 5

\* the length of the limiter's window, in seconds
Window == 60

\* the longest sleep after a rate-limit error, in seconds
MaxBackoff == 60

\* the largest calls_per_minute explored
MaxRate == 2

\* the executions of _call_llm_with_retry explored
MaxExecutions == 2

\* the time up to which the caller lets time pass between executions
MaxTime == 60

\* the pauses of the caller between two executions, in seconds (the sleeps
\* of the limiter and of the loop add the other distances between calls)
Pauses == {57}

\* the whole seconds random.random() can add to a sleep that lasts at least
\* the time asked for
Jitter == {0, 1}

\* what chain.invoke can do
InvokeOutcomes == {"ok", "rate_limit", "other"}

RECURSIVE Pow2(_)
Pow2(n) == IF n = 0 THEN 1 ELSE 2 * Pow2(n - 1)

\* wait_if_needed at time t: the time at which it returns and call_times then
wait_if_needed(t, times, limit) ==
    LET kept == SelectSeq(times, LAMBDA x : t - x < Window)
    IN  IF Len(kept) >= limit
        THEN LET sleep_time == Window - (t - kept[1]) + 1
             IN  IF sleep_time > 0
                 THEN [now |-> t + sleep_time, call_times |-> <<t + sleep_time>>]
                 ELSE [now |-> t, call_times |-> Append(kept, t)]
        ELSE [now |-> t, call_times |-> Append(kept, t)]

\* the except clauses, on the mutated code: every error is retried
AfterErrorRetriesAll(error, k) ==
    IF error = "ok" THEN "returned"
    ELSE IF k + 1 < max_retries THEN "attempt" ELSE "fallback"

\* where the execution stands after attempt k ended with `error`: a return,
\* the next turn of the loop, the code after the loop, or a raise
AfterError(error, k) ==
    IF error = "ok" THEN "returned"
    ELSE IF error = "rate_limit"
         THEN IF k + 1 < max_retries THEN "attempt" ELSE "fallback"
         ELSE "raised"

InitRetry ==
    /\ phase = "idle"
    /\ question = <<>>
    /\ result = NoResult
    /\ consulted = <<>>
    /\ invoked = <<>>
    /\ fetches = 0
    /\ cache_reads = {}
    /\ cache_writes = {}
    /\ network = NoNet
    /\ mercedes_file = NoFile
    /\ malko_file = NoJsonFile
    /\ BatchIdle
    /\ CleanIdle
    /\ gnode = "off"
    /\ messages = <<>>
    /\ supersteps = 0
    /\ rpc = "idle"
    /\ attempt = 0
    /\ primary_calls = 0
    /\ fallback_calls = 0
    /\ last_error = "none"
    /\ executions = 0
    /\ now = 0
    /\ calls_per_minute \in 1..MaxRate
    /\ call_times = <<>>
    /\ admitted = <<>>
    /\ fallback_llm \in BOOLEAN

\* _call_llm_with_retry(chain, state) is entered
Begin ==
    /\ rpc \in {"idle", "returned", "raised"}
    /\ executions < MaxExecutions
    /\ executions' = executions + 1
    /\ rpc' = "attempt"
    /\ attempt' = 0
    /\ primary_calls' = 0
    /\ fallback_calls' = 0
    /\ last_error' = "none"
    /\ UNCHANGED <<routerVars, batchVars, cleanVars, gnode, messages, supersteps, now,
                   calls_per_minute, call_times, admitted, fallback_llm>>

\* one turn of the loop: wait_if_needed, chain.invoke and the except clause
PrimaryAttempt(outcome, jitter) ==
    /\ rpc = "attempt"
    /\ \E w \in {wait_if_needed(now, call_times, calls_per_minute)} :
          /\ call_times' = w.call_times
          /\ admitted' = Append(admitted, w.now)
          /\ now' = IF outcome = "rate_limit"
                    THEN w.now + Min({MaxBackoff, Pow2(attempt) + jitter})
                    ELSE w.now
    /\ primary_calls' = primary_calls + 1
    /\ last_error' = IF outcome = "ok" THEN "none" ELSE outcome
    /\ rpc' = AfterError(outcome, attempt)
    /\ attempt' = IF outcome = "rate_limit" THEN attempt + 1 ELSE attempt
    /\ UNCHANGED <<routerVars, batchVars, cleanVars, gnode, messages, supersteps,
                   fallback_calls, executions, calls_per_minute, fallback_llm>>

\* the code after the loop: the fallback chain, when there is a fallback model
Fallback(outcome) ==
    /\ rpc = "fallback"
    /\ IF fallback_llm
       THEN /\ fallback_calls' = fallback_calls + 1
            /\ rpc' = IF outcome = "ok" THEN "returned" ELSE "raised"
            /\ last_error' = IF outcome = "ok" THEN "none" ELSE outcome
       ELSE /\ fallback_calls' = fallback_calls
            /\ rpc' = "raised"
            /\ last_error' = "exhausted"
    /\ UNCHANGED <<routerVars, batchVars, cleanVars, gnode, messages, supersteps,
                   attempt, primary_calls, executions, now, calls_per_minute,
                   call_times, admitted, fallback_llm>>

\* time passes between two executions
Pause(d) ==
    /\ rpc \in {"idle", "returned", "raised"}
    /\ executions < MaxExecutions
    /\ now + d <= MaxTime
    /\ now' = now + d
    /\ UNCHANGED <<routerVars, batchVars, cleanVars, gnode, messages, supersteps,
                   rpc, attempt, primary_calls, fallback_calls, last_error, executions,
                   calls_per_minute, call_times, admitted, fallback_llm>>

\* the turn of the loop the execution is at
PrimaryStep ==
    \E outcome \in InvokeOutcomes, jitter \in Jitter :
        PrimaryAttempt(outcome, IF outcome = "rate_limit" THEN jitter ELSE 0)

\* the code after the loop
FallbackStep ==
    \E outcome \in IF fallback_llm THEN InvokeOutcomes ELSE {"other"} : Fallback(outcome)

NextRetry ==
    \/ Begin
    \/ PrimaryStep
    \/ FallbackStep
    \/ \E d \in Pauses : Pause(d)

SpecRetry == InitRetry /\ [][NextRetry]_vars

\* the execution is sequential code: a turn of the loop that is begun is
\* carried out (chain.invoke returns or raises and every sleep ends), and so
\* is the code after the loop
SpecRetryFair == SpecRetry /\ WF_vars(PrimaryStep) /\ WF_vars(FallbackStep)

---------------------------------------------------------------------------
(* The claims about the router agent (Spec).                               *)

\* the handlers in the order the claims name, and those whose pattern
\* matches the question of the call that returned
NamedOrder == <<"Reverse", "Vegetable", "NonCommutative", "MercedesSosa", "Malko">>
MatchedHere == {i \in 1..Len(NamedOrder) : Matches(NamedOrder[i], question)}

\* C1: when a call of the router agent has ended, the handlers were
\* consulted in the order Reverse, Vegetable, NonCommutative, MercedesSosa,
\* Malko up to the first whose pattern matches the question, and that
\* handler alone was invoked: no later handler whose pattern matches too,
\* and no substitute when the invoked handler raised.
C1_FirstMatchOnly ==
    (phase = "returned" /\ MatchedHere # {}) =>
        /\ invoked = <<NamedOrder[Min(MatchedHere)]>>
        /\ consulted = SubSeq(NamedOrder, 1, Min(MatchedHere))

\* a call that ended on a question two patterns match, whose first matching
\* handler raised
C1_Witness ==
    /\ phase = "returned"
    /\ Cardinality(MatchedHere) >= 2
    /\ result.kind = "raise"
    /\ invoked = <<NamedOrder[Min(MatchedHere)]>>

\* C2: a call on a question that none of the five patterns matches returns
\* exactly "UNHANDLED", with no handler invoked, no network fetch and no
\* cache file read or written.
C2_Unhandled ==
    (phase = "returned" /\ MatchedHere = {}) =>
        /\ result = Ret(<<"UNHANDLED">>)
        /\ invoked = <<>>
        /\ fetches = 0
        /\ cache_reads = {}
        /\ cache_writes = {}

\* a call that ended on a non-empty question no pattern matches
C2_Witness ==
    /\ phase = "returned"
    /\ question # <<>>
    /\ MatchedHere = {}
    /\ result = Ret(<<"UNHANDLED">>)

\* C3: every call of the router agent returns a string and never raises to
\* its caller.  BasicAgent.__call__ has no try/except, so the ValueError of
\* a handler reaches the caller: this invariant is violated.
C3_NeverRaises == phase = "returned" => result.kind = "return"

---------------------------------------------------------------------------
(* The claims about run_and_submit_all (SpecBatch).                        *)

\* the items the loop has passed that have a task_id (one that is not
\* empty: the loop tests "not task_id") and a question
PassedItems ==
    {i \in 1..Len(questions_data) :
        /\ i < item_idx
        /\ questions_data[i].has_task_id
        /\ questions_data[i].task_id # ""
        /\ questions_data[i].has_question}

\* C4: whatever items the agent raises on, the items with a task_id and a
\* question that the loop has passed were each processed exactly once, in
\* list order, and have one row each in the results log, in that order; the
\* row of an item the agent raised on holds "AGENT ERROR: <detail>", and the
\* loop went on to the next item.
C4_BatchIsolation ==
    bstatus \in {"running", "no_answers", "submitted"} =>
        /\ Len(processed) = Cardinality(PassedItems)
        /\ Len(results_log) = Cardinality(PassedItems)
        /\ \A k \in 1..Len(processed) :
              /\ processed[k].index \in PassedItems
              /\ Cardinality({i \in PassedItems : i < processed[k].index}) = k - 1
              /\ results_log[k].task_id = questions_data[processed[k].index].task_id
              /\ results_log[k].question = questions_data[processed[k].index].question
              /\ processed[k].raised =>
                    /\ Len(results_log[k].answer) = 2
                    /\ results_log[k].answer[1] = "AGENT ERROR: "
        /\ (bstatus # "running" => item_idx = Len(questions_data) + 1)

\* a finished run in which the agent raised on an item and a later item was
\* processed all the same
C4_Witness ==
    /\ bstatus \in {"no_answers", "submitted"}
    /\ \E k \in 1..Len(processed) :
          /\ processed[k].raised
          /\ k < Len(processed)
          /\ ~processed[k + 1].raised
    /\ Len(results_log) = Len(processed)
    /\ Len(questions_data) > Len(processed)

---------------------------------------------------------------------------
(* The claims about the answer cleaner (SpecClean).                        *)

\* the question contains "comma" and also "list" or "separated", in any case
AsksCommaList ==
    /\ \E i \in 1..Len(cq) : cq[i] \in {"comma", "COMMA"}
    /\ \E i \in 1..Len(cq) : cq[i] \in {"list", "List", "LIST", "separated"}

\* C5: the cleaner is idempotent: clean(clean(x, q), q) = clean(x, q).  Each
\* prefix pattern is removed once, so a second pass removes more: this
\* invariant is violated.
C5_Idempotent == cpc = "recleaned" => out2 = out1

\* C6: clean("$1,234.56", "total sales?") = "1234.56" and
\* clean("12%", "what percent?") = "12".  The sentence step cuts the amount
\* at its decimal point before the number step: this invariant is violated.
C6_DecoratedNumber ==
    /\ (cpc # "start" /\ raw = DollarAmount /\ cq = QuestionTotalSales) =>
            out1 = Ret(<<"1", "2", "3", "4", ".", "5", "6">>)
    /\ (cpc # "start" /\ raw = Percentage /\ cq = QuestionPercent) =>
            out1 = Ret(<<"1", "2">>)

\* C7: when the question contains "comma" and also "list" or "separated",
\* in any case, what clean returns has no whitespace right after a comma,
\* and clean("apple, banana, cherry", q) = "apple,banana,cherry".
C7_NoSpaceAfterComma ==
    (cpc # "start" /\ AsksCommaList /\ out1.kind = "return") =>
        /\ \A i \in 1..(Len(out1.value) - 1) :
              out1.value[i] = "," => out1.value[i + 1] \notin {" ", "\n", "\t"}
        /\ raw = FruitList => out1.value = <<"apple", ",", "banana", ",", "cherry">>

\* the fruit list, cleaned for a question that asks in capitals
C7_Witness ==
    /\ cpc = "cleaned"
    /\ raw = FruitList
    /\ cq = QuestionCommaUpper
    /\ AsksCommaList
    /\ out1 = Ret(<<"apple", ",", "banana", ",", "cherry">>)

\* C8: when the question asks for a comma-separated list and the raw answer
\* is a list of items separated by ", ", clean returns the same items in the
\* same order, joined by bare commas.  The number step takes the commas out
\* of a list of numbers: this invariant is violated.
C8_ListPreserved ==
    (cpc # "start" /\ AsksCommaList /\ raw \in {FruitList, NumberList}) =>
        /\ out1.kind = "return"
        /\ Len(Split(out1.value, ",")) = Len(Split(raw, ","))
        /\ \A i \in 1..Len(Split(raw, ",")) :
              Split(out1.value, ",")[i] = Strip(Split(raw, ",")[i])

---------------------------------------------------------------------------
(* The claims about the vegetable resolver (SpecVeg).                      *)

\* the allow-list in alphabetical order
AllowList ==
    <<<<"broccoli">>, <<"celery">>, <<"fresh", " ", "basil">>, <<"lettuce">>,
      <<"sweet", " ", "potatoes">>>>
RankOf(v) == CHOOSE i \in 1..Len(AllowList) : AllowList[i] = v

\* the question holds the marker, in any case
HasMarker == \E i \in 1..Len(question) : MatchAt(ListMarker, LowerStr(question), i)

\* the text of the grocery list: from the marker to "I need" or to the end
GroceryText ==
    LET lq == LowerStr(question)
        start == Min({i \in 1..Len(lq) : MatchAt(ListMarker, lq, i)}) + Len(ListMarker)
        stops == {i \in start..Len(lq) : MatchAt(INeed, lq, i)}
    IN SubSeq(question, start, IF stops = {} THEN Len(lq) ELSE Min(stops) - 1)

\* the allow-list members that occur in the list after trimming,
\* lower-casing and alias mapping
ExpectedVegetables ==
    LET pieces == Split(GroceryText, ",")
        Plain(i) == LowerStr(Strip(pieces[i]))
    IN {v \in {AllowList[j] : j \in 1..Len(AllowList)} :
          \E i \in 1..Len(pieces) :
              \/ Plain(i) = v
              \/ (Plain(i) = <<"basil">> /\ v = <<"fresh", " ", "basil">>)}

\* the resolver's output split on ", "
OutputItems ==
    LET pieces == Split(result.value, ",")
    IN [i \in 1..Len(pieces) |-> IF i = 1 THEN pieces[i] ELSE Tail(pieces[i])]

\* C9: for a question with a grocery list after the marker, the resolver's
\* output, split on ", ", is in strictly ascending alphabetical order, holds
\* members of the allow-list only, and holds exactly the allow-list members
\* that occur in the list after trimming, lower-casing and alias mapping.
C9_SortedAllowList ==
    (phase = "returned" /\ invoked = <<"Vegetable">> /\ result.kind = "return") =>
        /\ \A i \in 2..Len(Split(result.value, ",")) :
              Split(result.value, ",")[i][1] = " "
        /\ \A i \in 1..Len(OutputItems) :
              OutputItems[i] \in {AllowList[j] : j \in 1..Len(AllowList)}
        /\ \A i \in 1..(Len(OutputItems) - 1) :
              RankOf(OutputItems[i]) < RankOf(OutputItems[i + 1])
        /\ {OutputItems[i] : i \in 1..Len(OutputItems)} = ExpectedVegetables

\* a list of three items with "Basil" and "broccoli" among them,
\* answered "broccoli, fresh basil"
C9_Witness ==
    /\ phase = "returned"
    /\ invoked = <<"Vegetable">>
    /\ HasMarker
    /\ Len(Split(GroceryText, ",")) = 3
    /\ result = Ret(<<"broccoli", ",", " ", "fresh", " ", "basil">>)

\* C10: the resolver never returns an empty string: without the marker it
\* fails with its "no list found" error, and with the marker but no listed
\* item in the allow-list it fails with its "no vegetables identified" error.
C10_NeverEmpty ==
    (phase = "returned" /\ invoked = <<"Vegetable">>) =>
        /\ result # Ret(<<>>)
        /\ ~HasMarker =>
              result = Raise("Unable to locate the grocery list in the question.")
        /\ (HasMarker /\ ExpectedVegetables = {}) =>
              result = Raise("No vegetables identified in the provided list.")

\* a list after the marker with groceries but no vegetable
C10_Witness ==
    /\ phase = "returned"
    /\ invoked = <<"Vegetable">>
    /\ HasMarker
    /\ \E i \in 1..Len(question) : question[i] = "milk"
    /\ ExpectedVegetables = {}
    /\ result.kind = "raise"

---------------------------------------------------------------------------
(* The claims about the non-commutative-witness resolver (Spec).           *)

\* the elements x of the table for which some y has x * y # y * x
NonCommuting ==
    {x \in DOMAIN _TABLE : \E y \in DOMAIN _TABLE : _TABLE[x][y] # _TABLE[y][x]}

\* C11: every invocation of the non-commutative-witness resolver returns
\* the elements x of the built-in table for which some y has
\* table[x][y] # table[y][x], sorted and joined by ", ": always "b, e".
C11_NonCommutativeWitnesses ==
    (phase = "returned" /\ invoked = <<"NonCommutative">>) =>
        /\ NonCommuting = {"b", "e"}
        /\ result = Ret(<<"b", ",", " ", "e">>)

\* the resolver was invoked on a question about the table and returned
C11_Witness ==
    /\ phase = "returned"
    /\ invoked = <<"NonCommutative">>
    /\ Contains(<<"table", " ", "defining">>, question)
    /\ result = Ret(<<"b", ",", " ", "e">>)

---------------------------------------------------------------------------
(* The claims about the scrape caches (Spec).                              *)

\* the text is one or more decimal digits
AllDigits(t) ==
    /\ t # <<>>
    /\ \A i \in 1..Len(t) : t[i] \in {"0", "1", "2", "3", "4", "5", "6", "7", "8", "9"}

\* the text without what surrounds its first to its last non-blank lexeme
Trimmed(t) ==
    LET inked == {i \in 1..Len(t) : t[i] \notin {" ", "\n", "\t"}}
    IN IF inked = {} THEN <<>>
       ELSE SubSeq(t, Min(inked), CHOOSE m \in inked : \A i \in inked : i <= m)

\* the decimal numeral of the number a string of digits denotes: the digits
\* from the first that is not "0", or "0"
Numeral(t) ==
    LET sig == {i \in 1..Len(t) : t[i] # "0"}
    IN IF sig = {} THEN <<"0">> ELSE SubSeq(t, Min(sig), Len(t))

\* the album-count resolver is invoked in this step
AlbumCountStep ==
    phase = "idle" /\ phase' = "returned" /\ invoked' = <<"MercedesSosa">>

\* C12: an invocation of the album-count resolver that finds the cache file
\* with a trimmed content of decimal digits returns that number as a
\* string, fetches nothing and leaves the cache file as it is.
C12_CacheAuthoritative ==
    [][(/\ AlbumCountStep
        /\ mercedes_file.exists
        /\ AllDigits(Trimmed(mercedes_file.text)))
       => /\ result' = Ret(Numeral(Trimmed(mercedes_file.text)))
          /\ fetches' = 0
          /\ "mercedes" \notin cache_writes'
          /\ mercedes_file' = mercedes_file]_vars

\* the resolver answered "7" from the cache file " 07\n" without a fetch
C12_Witness ==
    /\ phase = "returned"
    /\ invoked = <<"MercedesSosa">>
    /\ mercedes_file = FileOf(<<" ", "0", "7", "\n">>)
    /\ result = Ret(<<"7">>)
    /\ fetches = 0
    /\ cache_reads = {"mercedes"}

\* C13: over any sequence of invocations, a cache file that exists is never
\* changed by a later invocation, whatever its content.  A cache file whose
\* content the resolver cannot use is overwritten by the next successful
\* scrape: this property is violated.
C13_WriteOnce ==
    [][/\ mercedes_file.exists => mercedes_file' = mercedes_file
       /\ malko_file.exists => malko_file' = malko_file]_vars

---------------------------------------------------------------------------
(* The claims about the winner lookup (SpecScrape).                        *)

\* the field of a record under the first of the keys that it has with a
\* text that is not empty
FieldOf(rec, keys) ==
    LET has == {i \in 1..Len(keys) : keys[i] \in DOMAIN rec /\ rec[keys[i]] # <<>>}
    IN IF has = {} THEN <<>> ELSE rec[keys[Min(has)]]

\* the year of the record lies in 1978..2000
YearInRange(rec) ==
    FieldOf(rec, <<"year", "years">>) \in {IntToStr(y) : y \in 1978..2000}

\* the country of the record contains the name of a defunct country
CountryDefunct(rec) ==
    \E name \in defunct_countries :
        Contains(name, LowerStr(FieldOf(rec, <<"country", "nationality">>)))

\* the tokens of the record's name: its pieces between spaces
NameTokens(rec) ==
    SelectSeq(Split(FieldOf(rec, <<"winner", "name">>), " "), LAMBDA t : t # <<>>)

\* the list of records the lookup that returned has searched: the cached
\* list, what the scrape yielded, or the built-in fallback list
SearchedList ==
    IF fetches = 0 THEN malko_file.winners
    ELSE IF network.scrape # <<>> THEN network.scrape
    ELSE _FALLBACK_WINNERS

\* a winner lookup has returned from a search of a list of records
SearchedAList ==
    /\ phase = "returned"
    /\ invoked = <<"Malko">>
    /\ (fetches = 0 => malko_file.json = "list")

\* C14 as stated: the lookup returns the first token of the name of the
\* first record, in list order, with a year in 1978..2000 and a defunct
\* country, and fails when there is none.  A record with both but without a
\* name is passed over by the code: this invariant is violated.
C14_FirstInRangeDefunct ==
    SearchedAList =>
        LET hits == {i \in 1..Len(SearchedList) :
                        /\ YearInRange(SearchedList[i])
                        /\ CountryDefunct(SearchedList[i])}
        IN IF hits = {} THEN result.kind = "raise"
           ELSE /\ result.kind = "return"
                /\ NameTokens(SearchedList[Min(hits)]) # <<>>
                /\ result.value = NameTokens(SearchedList[Min(hits)])[1]

\* C14, amended: the lookup returns the first token of the name of the
\* first record, in list order, that has a name, a year in 1978..2000 and a
\* defunct country, and fails when there is none; on the built-in fallback
\* list it returns "Claus".
C14_FirstNamedInRangeDefunct ==
    SearchedAList =>
        LET hits == {i \in 1..Len(SearchedList) :
                        /\ YearInRange(SearchedList[i])
                        /\ CountryDefunct(SearchedList[i])
                        /\ NameTokens(SearchedList[i]) # <<>>}
        IN /\ IF hits = {} THEN result.kind = "raise"
              ELSE result = Ret(NameTokens(SearchedList[Min(hits)])[1])
           /\ SearchedList = _FALLBACK_WINNERS => result = Ret(<<"Claus">>)

\* a scrape whose first record has no name and whose second is the first
\* with a name, a year in range and a defunct country: "Anna" is returned
C14_Witness ==
    /\ SearchedAList
    /\ Len(SearchedList) = 2
    /\ YearInRange(SearchedList[1])
    /\ CountryDefunct(SearchedList[1])
    /\ NameTokens(SearchedList[1]) = <<>>
    /\ result = Ret(<<"Anna">>)

\* the winner lookup is invoked in this step
WinnerLookupStep ==
    phase = "idle" /\ phase' = "returned" /\ invoked' = <<"Malko">>

\* C15: a winner lookup that finds a cache file that is not a list of
\* records ignores it and scrapes the page.  A file of valid JSON that is no
\* list is loaded and searched without a fetch: this property is violated.
C15_MalformedCacheIgnored ==
    [][(WinnerLookupStep /\ malko_file.exists /\ malko_file.json # "list")
       => (fetches' = 1 /\ result'.error # "cached winners are not a list of records")]_vars

\* C16: a winner lookup that finds no cache file and whose scrape fails or
\* yields no record answers from the built-in fallback list, "Claus", and
\* leaves the cache file absent; no invocation writes the fallback list to
\* the cache file.
C16_FallbackNotPersisted ==
    [][/\ (WinnerLookupStep /\ ~malko_file.exists /\ network'.scrape = <<>>)
          => /\ result' = Ret(<<"Claus">>)
             /\ fetches' = 1
             /\ "malko" \notin cache_writes'
             /\ malko_file' = malko_file
       /\ malko_file' # malko_file => malko_file'.winners # _FALLBACK_WINNERS]_vars

\* a lookup without a cache file, whose scrape yielded nothing, answered
\* "Claus" and left no file
C16_Witness ==
    /\ phase = "returned"
    /\ invoked = <<"Malko">>
    /\ fetches = 1
    /\ network.scrape = <<>>
    /\ ~malko_file.exists
    /\ cache_writes = {}
    /\ result = Ret(<<"Claus">>)

---------------------------------------------------------------------------
(* The claim about the reverse rule (Spec).                                *)

\* C17: a question that contains the reversed substring ".rewsna" is
\* matched by the reverse rule and answered "right".  The pattern of the
\* code asks for a backslash and one more character before "rewsna", so a
\* reversed question without a backslash is not matched: this invariant is
\* violated.
C17_ReversedMatched ==
    (phase = "returned" /\ Contains(<<".", "rewsna">>, question))
        => (invoked = <<"Reverse">> /\ result = Ret(<<"right">>))

---------------------------------------------------------------------------
(* The claims about the JSON step of the cleaner (SpecClean).              *)

\* C18: _clean_answer raises for no raw answer and no question, in either
\* copy.  In the copy of src/agent the value of a FINISH object replaces the
\* answer as it is, and re.sub raises TypeError on a value that is no
\* string: this invariant is violated.
C18_CleanNeverRaises == cpc # "start" => out1.kind = "return"

\* the text that enters the JSON step of the call, and what the step yields
JsonStepIn == Unfenced(raw)
JsonStepOut == StepJson(copy, JsonStepIn)

\* the text is a JSON object whose "name" key equals "FINISH"
IsFinishObject(text) ==
    /\ StartsWith(text, <<"{">>)
    /\ JsonLoads(text).ok
    /\ HasKey(JsonLoads(text).pairs, <<"name">>)
    /\ ValueOf(JsonLoads(text).pairs, <<"name">>) = JVal("string", <<"FINISH">>)

\* the priority order of the keys
KeyPriority ==
    <<<<"answer">>, <<"arguments">>, <<"vegetables">>, <<"surname">>, <<"value">>,
      <<"result">>, <<"submitted_answer">>>>

\* the keys of the priority order that the object has
KeysPresent(text) ==
    {k \in 1..Len(KeyPriority) : HasKey(JsonLoads(text).pairs, KeyPriority[k])}

\* C20: the JSON step changes the answer only when the text is a JSON
\* object whose "name" is "FINISH"; it then yields the value of the first
\* key present in the priority order, whatever the order of the keys in the
\* object, and leaves every other text unchanged.  The copy of src/cache
\* lets the first member of the object other than "name" override the
\* priority order and rewrites objects whose name is not FINISH: this
\* invariant is violated.
C20_FinishByPriority ==
    cpc = "cleaned" =>
        IF IsFinishObject(JsonStepIn) /\ KeysPresent(JsonStepIn) # {}
        THEN JsonStepOut.text =
                ValueOf(JsonLoads(JsonStepIn).pairs,
                        KeyPriority[Min(KeysPresent(JsonStepIn))]).text
        ELSE JsonStepOut = JVal("string", JsonStepIn)

---------------------------------------------------------------------------
(* The claim about the answer of the LLM agent (SpecLLM).                  *)

\* the cleaning pipeline of the call ended with an empty or blank string
CleanedBlank ==
    /\ Clean(copy, raw, cq).kind = "return"
    /\ Strip(Clean(copy, raw, cq).value) = <<>>

\* C19: the answer the agent returns after cleaning is never the empty
\* string; when the cleaning ends with an empty or blank string the agent
\* returns "Unable to determine answer".  __call__ of src/agent returns the
\* cleaned answer as it is: this invariant is violated.
C19_NeverEmptyAnswer ==
    (cpc = "answered" /\ out2 = NoResult) =>
        /\ out1.value # <<>>
        /\ CleanedBlank => out1.value = UnableToDetermine

---------------------------------------------------------------------------
(* The claims about the prefix step and the quote step (SpecClean).        *)

\* the JSON step of the call yielded a str, which the later steps take
JsonGaveText == JsonStepOut.type = "string"

\* the text that leaves the prefix step of the call
PrefixStepOut == StepPrefixes(JsonStepOut.text)

\* the text begins with a match of one of the four prefix patterns
BeginsWithPrefix(s) ==
    \/ \E p \in LeadingPhrases : StartsWith(LowerStr(s), p)
    \/ RemoveCorrectNoun(s) # s
    \/ (DigitsEnd(s, 1) >= 1 /\ DigitsEnd(s, 1) < Len(s) /\ s[DigitsEnd(s, 1) + 1] = ".")
    \/ (s # <<>> /\ s[1] \in {"-", Bullet})

\* C21: the prefix step is repeated until no prefix pattern matches: the
\* text that leaves it begins with no leading phrase, no "the correct NOUN
\* is" construction, no "N." marker and no bullet.  The code applies each of
\* the four patterns once, in order, so a repeated or stacked prefix stays:
\* this invariant is violated.
C21_NoPrefixLeft ==
    (cpc = "cleaned" /\ JsonGaveText) => ~BeginsWithPrefix(PrefixStepOut)

\* the text that enters the final quote step of the call
QuoteStepIn == BeforeQuotes(JsonStepOut.text, cq)

\* the text without one layer of quotes, when a quote character is both its
\* first and its last character
OneLayerOff(s) ==
    IF Len(s) >= 2 /\ IsQuote(s[1]) /\ IsQuote(s[Len(s)])
    THEN SubSeq(s, 2, Len(s) - 1)
    ELSE s

\* C22: the quote step removes exactly one layer of quote characters and
\* only when a quote character is both the first and the last character.
\* strip('"\'') removes every quote character at either end, one-sided and
\* nested ones included: this invariant is violated.
C22_OneQuoteLayer ==
    (cpc = "cleaned" /\ JsonGaveText) => out1 = Ret(OneLayerOff(QuoteStepIn))

---------------------------------------------------------------------------
(* The claim about the cleaner behind the router (SpecVeg).                *)

\* C23: the answer the agent returns for a matched question equals the
\* answer cleaner applied to the resolver's raw output and the question; a
\* vegetable list for a question that asks for a comma separated list comes
\* with bare commas.  BasicAgent.__call__ returns what the handler returned
\* and cleans nothing, and the handler joins with ", ": this invariant is
\* violated.
C23_AnswerIsCleaned ==
    (phase = "returned" /\ invoked # <<>> /\ result.kind = "return")
        => \A c \in Copies : Clean(c, result.value, question) = result

---------------------------------------------------------------------------
(* The claim about a failed album-count fetch (SpecScrape).                *)

\* the cell holds a year: 19 or 20 and two more digits
HoldsYear(cell) ==
    \E i \in 1..(Len(cell) - 3) :
        /\ <<cell[i], cell[i + 1]>> \in {<<"1", "9">>, <<"2", "0">>}
        /\ IsDigit(cell[i + 2])
        /\ IsDigit(cell[i + 3])

\* the table has a column named "year" with a cell that holds a year
UsableYearColumn(table) ==
    \E k \in 1..Len(table.columns) :
        /\ LowerStr(Trimmed(table.columns[k])) = <<"year">>
        /\ \E i \in 1..Len(table.cells[k]) : HoldsYear(table.cells[k][i])

\* the fetch failed, or no fetched table has a usable year column
NothingUsable(page) ==
    ~page.ok \/ \A t \in 1..Len(page.tables) : ~UsableYearColumn(page.tables[t])

\* the album-count cache file is absent or invalid
NoValidCache(file) == ~(file.exists /\ AllDigits(Trimmed(file.text)))

\* C24: an album-count invocation that finds the cache absent or invalid
\* fetches; when the fetch fails or no fetched table has a usable year
\* column it fails with an error, returns no number and leaves the cache
\* file exactly as it was (so the next invocation fetches again).
C24_FailedFetchLeavesCache ==
    [][(AlbumCountStep /\ NoValidCache(mercedes_file))
       => /\ fetches' = 1
          /\ NothingUsable(network'.page)
                => /\ result'.kind = "raise"
                   /\ result'.value = <<>>
                   /\ mercedes_file' = mercedes_file
                   /\ "mercedes" \notin cache_writes'
                   /\ NoValidCache(mercedes_file')]_vars

\* an invocation on an invalid cache file fetched a page with tables, none
\* with a usable year column: it failed and the file is as it was
C24_Witness ==
    /\ phase = "returned"
    /\ invoked = <<"MercedesSosa">>
    /\ fetches = 1
    /\ network.page.ok
    /\ NothingUsable(network.page)
    /\ result.kind = "raise"
    /\ mercedes_file = FileOf(<<"x">>)
    /\ cache_writes = {}

---------------------------------------------------------------------------
(* The claims about the answer cache (SpecLLM).                            *)

\* C25: with the answer cache on, a call for q that returns an answer made
\* from the AI message of a completed graph run stores it under q; every
\* later call with q returns that same answer from the cache branch, before
\* the graph is invoked, and leaves the entry as it is.
C25_CachedAnswerStable ==
    [][/\ (copy = "cache" /\ cpc' = "answered")
          => /\ cq \in DOMAIN answer_cache'
             /\ answer_cache'[cq] = IF cpc = "start" THEN out1'.value ELSE out2'.value
       /\ (copy = "cache" /\ cq \in DOMAIN answer_cache)
          => /\ cpc' = "cached"
             /\ out2' = Ret(answer_cache[cq])
             /\ out1' = out1
             /\ answer_cache' = answer_cache]_vars

\* a later call returned from the cache what the first call had answered
C25_Witness ==
    /\ copy = "cache"
    /\ cpc = "cached"
    /\ raw = <<"1", ",", " ">>
    /\ out1 = Ret(<<"1">>)
    /\ out2 = out1
    /\ answer_cache[cq] = <<"1">>

\* the validated answer the agent of src/cache makes of the AI message raw
ValidatedAnswer ==
    IF Strip(Clean("cache", raw, cq).value) = <<>> THEN UnableToDetermine
    ELSE Strip(Clean("cache", raw, cq).value)

LastMessage(msgs) == msgs[Len(msgs)]

\* an agent message that carries no tool call
IsFinalAgentMessage(m) == m.type = "ai" /\ m.tool_calls = <<>>

\* the agent node ran and gave a response
AgentStep == gnode = "agent" /\ gnode' # "raised"

\* the tools node ran
ToolsStep == gnode = "tools"

\* C27: every run starts at the agent node; after an agent step the tools
\* node is next if and only if the agent's message carries at least one tool
\* call; a tools step is followed by the agent node; and the run is at its
\* end exactly when the last message is an agent message without tool calls.
C27_GraphRouting ==
    [][/\ (gnode = "ready" => gnode' = "agent")
       /\ (AgentStep =>
              /\ Len(messages') = Len(messages) + 1
              /\ LastMessage(messages').type = "ai"
              /\ (gnode' = "tools" <=> LastMessage(messages').tool_calls # <<>>)
              /\ gnode' \in {"tools", "end"})
       /\ (ToolsStep => gnode' = "agent")
       /\ (gnode' = "end" <=> IsFinalAgentMessage(LastMessage(messages')))]_vars

\* a run that went through the tools node and back has ended
C27_Witness ==
    /\ gnode = "end"
    /\ Len(messages) >= 4
    /\ messages[2].tool_calls # <<>>
    /\ messages[3].type = "tool"

\* what the tools step appended to the messages
Returned == SubSeq(messages', Len(messages) + 1, Len(messages'))

\* C28: for every tool call of the last agent message tool_node returns
\* exactly one tool message with that call's tool_call_id, in call order, and
\* a tool that raises gives the content "Error: <detail>" while the run goes on.
C28_OneMessagePerCall ==
    [][ToolsStep =>
          LET calls == LastMessage(messages).tool_calls
          IN  /\ Len(Returned) = Len(calls)
              /\ \A i \in 1..Len(calls) :
                     /\ Returned[i].type = "tool"
                     /\ Returned[i].tool_call_id = calls[i].id
                     /\ Returned[i].content \in {<<"observation">>, <<"Error: ", "detail">>}
              /\ gnode' = "agent"]_vars


(***************************************************************************)
(* The claims about _call_llm_with_retry and the rate limiter (SpecRetry,  *)
(* SpecRetryFair).                                                         *)
(***************************************************************************)

\* an execution of _call_llm_with_retry is under way
Executing == rpc \in {"attempt", "fallback"}

\* the execution has returned or raised
Ended == rpc \in {"returned", "raised"}

\* the step invoked the primary chain
PrimaryInvoked == primary_calls' = primary_calls + 1

\* the step invoked the fallback chain
FallbackInvoked == fallback_calls' = fallback_calls + 1

\* C29: every execution of _call_llm_with_retry ends, after at most
\* max_retries invocations of the primary chain and at most one of the
\* fallback chain; another primary attempt follows only a rate-limit error,
\* any other error is raised at once, and the fallback chain is invoked only
\* after max_retries primary attempts that all hit the rate limit.
C29_RetryBounded ==
    /\ [](primary_calls <= max_retries /\ fallback_calls <= 1)
    /\ [][/\ (PrimaryInvoked /\ rpc' = "attempt" => last_error' = "rate_limit")
          /\ (PrimaryInvoked /\ last_error' = "other" => rpc' = "raised")
          /\ (PrimaryInvoked /\ last_error' = "none" => rpc' = "returned")
          /\ (FallbackInvoked =>
                 /\ primary_calls = max_retries
                 /\ attempt = max_retries
                 /\ last_error = "rate_limit"
                 /\ Ended')
          /\ (rpc' = "fallback" => primary_calls' = max_retries)]_vars
    /\ (Executing ~> Ended)

\* the fallback chain answered after max_retries rate-limited attempts
C29_Witness ==
    /\ rpc = "returned"
    /\ primary_calls = max_retries
    /\ fallback_calls = 1

\* C30: whatever the times of the wait_if_needed calls, at most
\* calls_per_minute calls are admitted within any window of 60 seconds, a call
\* being admitted at the time recorded for it in call_times.
C30_AtMostRatePerWindow ==
    \A i, j \in 1..Len(admitted) :
        (i <= j /\ admitted[j] - admitted[i] < Window) => j - i + 1 <= calls_per_minute

=============================================================================
